---- MODULE Spec2Model ----
(***************************************************************************)
(* A model of jlox-rs: the pipeline of lib.rs (scan, parse, resolve,       *)
(* interpret), the recursive-descent parser, the resolver, the environment *)
(* chain and the tree-walking interpreter with its callable/object model.  *)
(*                                                                         *)
(* Rust's Rc<RefCell<T>> cells are modelled as indices into a heap         *)
(* (a sequence of cells); cloning an Rc copies the index, cloning a plain  *)
(* value copies the value.  Numbers are modelled as integers.  Source      *)
(* lines of tokens are not modelled.                                       *)
(***************************************************************************)
EXTENDS Integers, Sequences, FiniteSets, TLC

(***************************************************************************)
(* Runtime values: token.rs LiteralType (variants as matched exhaustively  *)
(* by Interpreter::is_truthy) and lox_callable.rs Callable.                *)
(***************************************************************************)
Nil == [tag |-> "Nil"]
Number(v) == [tag |-> "Number", v |-> v]
\* a string is the sequence of its pieces; concatenation is \o
String(v) == [tag |-> "String", v |-> v]
Boolean(v) == [tag |-> "Boolean", v |-> v]
NativeFunction(name, arity) == [tag |-> "NativeFunction", name |-> name, arity |-> arity]
\* LoxFunction: declaration (a stmt::Function), closure (an Rc: index of an
\* environment cell), is_initializer.
LoxFunction_new(declaration, closure, is_initializer) ==
  [tag |-> "Function", declaration |-> declaration, closure |-> closure,
   is_initializer |-> is_initializer]
\* LoxClass: name, superclass (<<>> is None, <<c>> is Some(Box(c))), methods
\* (a map from method name to LoxFunction).
LoxClass_new(name, superclass, methods) ==
  [tag |-> "Class", name |-> name, superclass |-> superclass, methods |-> methods]
\* Callable::Instance(Rc<RefCell<LoxInstance>>): the index of an instance cell.
InstanceRef(i) == [tag |-> "Instance", ref |-> i]

\* HashMap<String, _> as a function whose domain is the set of keys.
EmptyMap == [k \in {} |-> Nil]
contains_key(m, k) == k \in DOMAIN m
insert(m, k, v) == [x \in (DOMAIN m) \cup {k} |-> IF x = k THEN v ELSE m[x]]

(***************************************************************************)
(* Tokens.  A token is its type, its lexeme and its literal.               *)
(***************************************************************************)
Token(token_type, lexeme, literal) ==
  [token_type |-> token_type, lexeme |-> lexeme, literal |-> literal]

Digits == <<"0", "1", "2", "3", "4", "5", "6", "7", "8", "9", "10", "11", "12", "13">>
IsDigits(w) == \E i \in 1..Len(Digits) : Digits[i] = w
DigitsValue(w) == (CHOOSE i \in 1..Len(Digits) : Digits[i] = w) - 1

\* scanner.rs get_keyword
Keywords ==
  [and |-> "And", class |-> "Class", else |-> "Else", false |-> "False",
   fun |-> "Fun", for |-> "For", if |-> "If", nil |-> "Nil", or |-> "Or",
   return |-> "Return", super |-> "Super", self |-> "SelfKW", true |-> "True",
   var |-> "Var", while |-> "While"]

\* scanner.rs scan_token, one lexeme at a time (the source text is given
\* already split into lexemes; white space and comments yield no token).
Symbols ==
  ("(" :> "LeftParen") @@ (")" :> "RightParen") @@ ("{" :> "LeftBrace") @@
  ("}" :> "RightBrace") @@ ("," :> "Comma") @@ ("." :> "Dot") @@
  ("-" :> "Minus") @@ ("+" :> "Plus") @@ (";" :> "Semicolon") @@
  ("*" :> "Star") @@ ("%" :> "Percentage") @@ ("&&" :> "AmperAmper") @@
  ("||" :> "BarBar") @@ ("==" :> "EqualEqual") @@ ("=" :> "Equal") @@
  ("!=" :> "BangEqual") @@ ("!" :> "Bang") @@ ("<=" :> "LessEqual") @@
  ("<" :> "Less") @@ (">=" :> "GreaterEqual") @@ (">" :> "Greater") @@
  ("/" :> "Slash")

scan_token(w) ==
  IF w \in DOMAIN Symbols THEN Token(Symbols[w], w, Nil)
  ELSE IF IsDigits(w) THEN Token("Number", w, Number(DigitsValue(w)))
  ELSE IF w \in DOMAIN Keywords THEN Token(Keywords[w], w, Nil)
  ELSE Token("Identifier", w, String(<<w>>))

\* scanner.rs scan_tokens: the tokens of the lexemes, then the Eof sentinel.
scan_tokens(source) ==
  [i \in 1..(Len(source) + 1) |->
     IF i <= Len(source) THEN scan_token(source[i]) ELSE Token("Eof", "", Nil)]

(***************************************************************************)
(* AST nodes: expr.rs and stmt.rs.                                         *)
(***************************************************************************)
ExprLiteral(value, uuid) == [type |-> "Literal", value |-> value, uuid |-> uuid]
ExprVariable(name, uuid) == [type |-> "Variable", name |-> name, uuid |-> uuid]
ExprAssignment(name, value, uuid) ==
  [type |-> "Assignment", name |-> name, value |-> value, uuid |-> uuid]
ExprBinary(left, operator, right, uuid) ==
  [type |-> "Binary", left |-> left, operator |-> operator, right |-> right, uuid |-> uuid]
ExprLogical(left, operator, right, uuid) ==
  [type |-> "Logical", left |-> left, operator |-> operator, right |-> right, uuid |-> uuid]
ExprUnary(operator, right, uuid) ==
  [type |-> "Unary", operator |-> operator, right |-> right, uuid |-> uuid]
ExprGrouping(expr, uuid) == [type |-> "Grouping", expr |-> expr, uuid |-> uuid]
ExprCall(callee, paren, arguments, uuid) ==
  [type |-> "Call", callee |-> callee, paren |-> paren, arguments |-> arguments, uuid |-> uuid]
ExprGet(object, name, uuid) ==
  [type |-> "Get", object |-> object, name |-> name, uuid |-> uuid]
ExprSet(object, name, value, uuid) ==
  [type |-> "Set", object |-> object, name |-> name, value |-> value, uuid |-> uuid]
ExprSelfExpr(keyword, uuid) == [type |-> "SelfExpr", keyword |-> keyword, uuid |-> uuid]

StmtBlock(statements) == [type |-> "Block", statements |-> statements]
\* superclass: <<>> is None, <<e>> is Some(e)
StmtClass(name, superclass, methods) ==
  [type |-> "Class", name |-> name, superclass |-> superclass, methods |-> methods]
StmtExpression(expr) == [type |-> "Expression", expr |-> expr]
\* else_branch: <<>> is None, <<s>> is Some(s)
StmtIf(condition, then_branch, else_branch) ==
  [type |-> "If", condition |-> condition, then_branch |-> then_branch,
   else_branch |-> else_branch]
StmtVar(name, initializer) == [type |-> "Var", name |-> name, initializer |-> initializer]
StmtWhile(condition, body) == [type |-> "While", condition |-> condition, body |-> body]
StmtFunction(name, params, body) ==
  [type |-> "Function", name |-> name, params |-> params, body |-> body]
StmtReturn(keyword, value) == [type |-> "Return", keyword |-> keyword, value |-> value]

(***************************************************************************)
(* Parser (parser.rs).  A parser value is the token vector, the cursor     *)
(* `current` (0-based as in the source: tokens[current + 1] here is        *)
(* tokens[current] there) and the process-wide UUID counter.  Every        *)
(* production returns [ok, val, p]: Ok(val) or Err(ParseError), and the    *)
(* parser after the call.  Diagnostics written by error() are not part of  *)
(* the state; `underflow` tells whether a token before index 0 was read.   *)
(***************************************************************************)
Parser_new(tokens, uuid) ==
  [tokens |-> tokens, current |-> 0, uuid |-> uuid, underflow |-> FALSE]

POk(val, p) == [ok |-> TRUE, val |-> val, p |-> p]
PErr(p) == [ok |-> FALSE, val |-> Nil, p |-> p]

peek(p) == p.tokens[p.current + 1]
previous(p) == p.tokens[p.current]
is_at_end(p) == peek(p).token_type = "Eof"
check(p, token_type) == IF is_at_end(p) THEN FALSE ELSE peek(p).token_type = token_type
\* a call of previous(): `self.tokens[self.current - 1]` is out of the vector
\* when current is 0, which `underflow` records
reads_previous(p) == [p EXCEPT !.underflow = @ \/ p.current = 0]
\* advance returns previous() of the parser it leaves
advance(p) == reads_previous(IF ~is_at_end(p) THEN [p EXCEPT !.current = @ + 1] ELSE p)
\* matches: the parser after the call; it has advanced iff one type matched
matched(p, token_types) == \E t \in token_types : check(p, t)
matches(p, token_types) == IF matched(p, token_types) THEN advance(p) ELSE p
consume(p, token_type) ==
  IF check(p, token_type) THEN POk(previous(advance(p)), advance(p))
  ELSE PErr(reads_previous(p))
\* uuid_next: UUID += 1; the new value is p.uuid of the result
uuid_next(p) == [p EXCEPT !.uuid = @ + 1]

RECURSIVE expression(_), assignment(_), or(_), or_loop(_), and(_), and_loop(_)
RECURSIVE factor(_), term(_), comparison(_), equality(_), binary_loop(_, _)
RECURSIVE unary(_), call(_), call_loop(_), finish_call(_, _), finish_call_args(_, _)
RECURSIVE primary(_)

\* primary(): the rest of the '(' arm, e being what expression() returned
grouping(e) ==
  LET c == consume(e.p, "RightParen")
      r == uuid_next(c.p) IN
  CASE ~e.ok -> e
    [] ~c.ok -> PErr(c.p)
    [] OTHER -> POk(ExprGrouping(e.val, r.uuid), r)

primary(p) ==
  LET q == uuid_next(advance(p)) IN
  CASE matched(p, {"True"}) -> POk(ExprLiteral(Boolean(TRUE), q.uuid), q)
    [] matched(p, {"False"}) -> POk(ExprLiteral(Boolean(FALSE), q.uuid), q)
    [] matched(p, {"Nil"}) -> POk(ExprLiteral(Nil, q.uuid), q)
    [] matched(p, {"Number", "String"}) -> POk(ExprLiteral(previous(q).literal, q.uuid), q)
    [] matched(p, {"Identifier"}) -> POk(ExprVariable(previous(q), q.uuid), q)
    [] matched(p, {"LeftParen"}) -> grouping(expression(advance(p)))
    [] OTHER -> PErr(p)

\* finish_call(): one turn of the argument loop, a being what expression()
\* returned for the argument
finish_call_arg(args, a) ==
  CASE ~a.ok -> a
    [] matched(a.p, {"Comma"}) -> finish_call_args(advance(a.p), Append(args, a.val))
    [] OTHER -> POk(Append(args, a.val), a.p)

\* the argument loop of finish_call, entered when the next token is not ')'
finish_call_args(p, args) == finish_call_arg(args, expression(p))

\* finish_call(): after the arguments
finish_call_paren(callee, args) ==
  LET paren == consume(args.p, "RightParen")
      q == uuid_next(paren.p) IN
  CASE ~args.ok -> args
    [] ~paren.ok -> PErr(paren.p)
    [] OTHER -> POk(ExprCall(callee, paren.val, args.val, q.uuid), q)

finish_call(p, callee) ==
  finish_call_paren(callee, IF ~check(p, "RightParen") THEN finish_call_args(p, <<>>)
                            ELSE POk(<<>>, p))

\* the loop of call(): while a '(' follows, finish the call; expr is the
\* result so far
call_loop(expr) ==
  IF expr.ok /\ matched(expr.p, {"LeftParen"})
  THEN call_loop(finish_call(advance(expr.p), expr.val))
  ELSE expr

call(p) == call_loop(primary(p))

\* unary(): after the operand
unary_node(operator, right) ==
  LET r == uuid_next(right.p) IN
  IF right.ok THEN POk(ExprUnary(operator, right.val, r.uuid), r) ELSE right

unary(p) ==
  IF matched(p, {"Bang", "Minus"})
  THEN unary_node(previous(advance(p)), unary(advance(p)))
  ELSE call(p)

\* The four left-associative binary levels share one shape: the left operand
\* is parsed WITHOUT `?`, so a failed left operand is only reported when the
\* loop body builds the node (`expr?`) or when the level returns.
BinaryOps ==
  [factor |-> {"Star", "Slash", "Percentage"}, term |-> {"Plus", "Minus"},
   comparison |-> {"Greater", "GreaterEqual", "Less", "LessEqual"},
   equality |-> {"BangEqual", "EqualEqual"}]

\* the production a level calls for its operands
operand(level, p) ==
  CASE level = "factor" -> unary(p)
    [] level = "term" -> factor(p)
    [] level = "comparison" -> term(p)
    [] level = "equality" -> comparison(p)

\* the body of the loop of a level, after `let right = self.<operand>()?`
binary_node(expr, operator, right) ==
  LET r == uuid_next(right.p) IN
  CASE ~right.ok -> right
    [] ~expr.ok -> PErr(right.p)
    [] OTHER -> POk(ExprBinary(expr.val, operator, right.val, r.uuid), r)

\* the `while self.matches(...)` loop of a level; expr is the result so far
binary_loop(level, expr) ==
  CASE expr.ok /\ ~matched(expr.p, BinaryOps[level]) -> expr
    [] matched(expr.p, BinaryOps[level]) ->
         binary_loop(level, binary_node(expr, previous(advance(expr.p)),
                                        operand(level, advance(expr.p))))
    [] OTHER -> expr

factor(p) == binary_loop("factor", unary(p))
term(p) == binary_loop("term", factor(p))
comparison(p) == binary_loop("comparison", term(p))
equality(p) == binary_loop("equality", comparison(p))

\* and(), or(): the body of the loop, after `let right = self.and()?`
logical_node(expr, operator, right) ==
  LET r == uuid_next(right.p) IN
  IF right.ok THEN POk(ExprLogical(expr.val, operator, right.val, r.uuid), r) ELSE right

and_loop(expr) ==
  IF expr.ok /\ matched(expr.p, {"And", "AmperAmper"})
  THEN and_loop(logical_node(expr, previous(advance(expr.p)), and(advance(expr.p))))
  ELSE expr

and(p) == and_loop(equality(p))

or_loop(expr) ==
  IF expr.ok /\ matched(expr.p, {"Or", "BarBar"})
  THEN or_loop(logical_node(expr, previous(advance(expr.p)), and(advance(expr.p))))
  ELSE expr

or(p) == or_loop(and(p))

\* assignment(): after `let value = self.assignment()?`
assignment_node(expr, value) ==
  LET r == uuid_next(value.p) IN
  CASE ~value.ok -> value
    [] expr.val.type = "Variable" -> POk(ExprAssignment(expr.val.name, value.val, r.uuid), r)
    [] OTHER -> PErr(value.p)

\* assignment(): after `let expr = self.or()?`
assignment_target(expr) ==
  IF expr.ok /\ matched(expr.p, {"Equal"})
  THEN assignment_node(expr, assignment(advance(expr.p)))
  ELSE expr

assignment(p) == assignment_target(or(p))

expression(p) == assignment(p)

RECURSIVE declaration(_), statement(_), block_loop(_, _), synchronize_loop(_)

\* consume(Semicolon) at the end of a statement that is built by `make`
\* from what expression() returned
semicolon(val) == consume(val.p, "Semicolon")

expression_statement_end(val) ==
  CASE ~val.ok -> val
    [] ~semicolon(val).ok -> PErr(semicolon(val).p)
    [] OTHER -> POk(StmtExpression(val.val), semicolon(val).p)

expression_statement(p) == expression_statement_end(expression(p))

var_declaration_end(name, init) ==
  CASE ~init.ok -> init
    [] ~semicolon(init).ok -> PErr(semicolon(init).p)
    [] OTHER -> POk(StmtVar(name, init.val), semicolon(init).p)

var_declaration(p) ==
  LET name == consume(p, "Identifier")
      q == uuid_next(name.p) IN
  IF ~name.ok THEN PErr(name.p)
  ELSE var_declaration_end(name.val,
         IF matched(q, {"Equal"}) THEN expression(advance(q))
         ELSE POk(ExprLiteral(Nil, q.uuid), q))

\* block(): `statements.push(self.declaration()?)`
block_push(statements, d) ==
  IF d.ok THEN block_loop(d.p, Append(statements, d.val)) ELSE d

\* block(): declarations up to the closing brace
block_loop(p, statements) ==
  IF ~check(p, "RightBrace") /\ ~is_at_end(p)
  THEN block_push(statements, declaration(p))
  ELSE LET c == consume(p, "RightBrace") IN
       IF ~c.ok THEN PErr(c.p) ELSE POk(statements, c.p)

block(p) == block_loop(p, <<>>)

RECURSIVE fun_params(_, _)
\* the parameter loop of fun_declaration
fun_params(p, params) ==
  LET n == consume(p, "Identifier") IN
  CASE ~n.ok -> PErr(n.p)
    [] matched(n.p, {"Comma"}) -> fun_params(advance(n.p), Append(params, n.val))
    [] OTHER -> POk(Append(params, n.val), n.p)

\* fun_declaration(): after `let body = self.block()?`
fun_declaration_end(name, params, body) ==
  IF body.ok THEN POk(StmtFunction(name, params, body.val), body.p) ELSE body

fun_declaration(p) ==
  LET name == consume(p, "Identifier")
      lp == consume(name.p, "LeftParen")
      params == IF ~check(lp.p, "RightParen") THEN fun_params(lp.p, <<>>)
                ELSE POk(<<>>, lp.p)
      rp == consume(params.p, "RightParen")
      lb == consume(rp.p, "LeftBrace") IN
  CASE ~name.ok -> PErr(name.p)
    [] ~lp.ok -> PErr(lp.p)
    [] ~params.ok -> PErr(params.p)
    [] ~rp.ok -> PErr(rp.p)
    [] ~lb.ok -> PErr(lb.p)
    [] OTHER -> fun_declaration_end(name.val, params.val, block(lb.p))

return_statement_end(keyword, value) ==
  CASE ~value.ok -> value
    [] ~semicolon(value).ok -> PErr(semicolon(value).p)
    [] OTHER -> POk(StmtReturn(keyword, value.val), semicolon(value).p)

return_statement(p) ==
  return_statement_end(previous(p),
    IF ~check(p, "Semicolon") THEN expression(p)
    ELSE LET q == uuid_next(p) IN POk(ExprLiteral(Nil, q.uuid), q))

\* Some(x) of an Ok(x)
some(res) == IF res.ok THEN POk(<<res.val>>, res.p) ELSE res

\* for_statement(): the desugaring, after `let mut body = self.statement()?`
for_desugar(initializer, condition, increment, body) ==
  LET body1 == IF increment # <<>>
               THEN StmtBlock(<<body.val, StmtExpression(increment[1])>>)
               ELSE body.val
      body2 == StmtWhile(condition, body1)
      body3 == IF initializer # <<>> THEN StmtBlock(<<initializer[1], body2>>) ELSE body2 IN
  IF body.ok THEN POk(body3, body.p) ELSE body

\* for_statement(): after the increment clause
for_body(initializer, condition, increment) ==
  LET rp == consume(increment.p, "RightParen") IN
  CASE ~increment.ok -> increment
    [] ~rp.ok -> PErr(rp.p)
    [] OTHER -> for_desugar(initializer, condition, increment.val, statement(rp.p))

\* for_statement(): after the condition clause
for_increment(initializer, condition) ==
  LET sc == consume(condition.p, "Semicolon") IN
  CASE ~condition.ok -> condition
    [] ~sc.ok -> PErr(sc.p)
    [] OTHER -> for_body(initializer, condition.val,
                         IF ~check(sc.p, "RightParen") THEN some(expression(sc.p))
                         ELSE POk(<<>>, sc.p))

\* for_statement(): after the initializer clause
for_condition(initializer) ==
  IF ~initializer.ok THEN initializer
  ELSE for_increment(initializer.val,
         IF ~check(initializer.p, "Semicolon") THEN expression(initializer.p)
         ELSE LET q == uuid_next(initializer.p) IN
              POk(ExprLiteral(Boolean(TRUE), q.uuid), q))

for_statement(p) ==
  LET lp == consume(p, "LeftParen") IN
  IF ~lp.ok THEN PErr(lp.p)
  ELSE for_condition(
         CASE matched(lp.p, {"Semicolon"}) -> POk(<<>>, advance(lp.p))
           [] matched(lp.p, {"Var"}) -> some(var_declaration(advance(lp.p)))
           [] OTHER -> some(expression_statement(lp.p)))

\* if_statement and while_statement: the parentheses around the condition
\* are consumed when present
paren_close(has_paren, condition) ==
  LET c == consume(condition.p, "RightParen") IN
  CASE ~condition.ok -> condition
    [] ~has_paren -> condition
    [] ~c.ok -> PErr(c.p)
    [] OTHER -> POk(condition.val, c.p)

paren_condition(p) ==
  paren_close(check(p, "LeftParen"),
              expression(IF check(p, "LeftParen") THEN advance(p) ELSE p))

if_end(condition, then_branch, else_branch) ==
  IF else_branch.ok
  THEN POk(StmtIf(condition, then_branch, <<else_branch.val>>), else_branch.p)
  ELSE else_branch

if_else(condition, then_branch) ==
  CASE ~then_branch.ok -> then_branch
    [] ~matched(then_branch.p, {"Else"}) ->
         POk(StmtIf(condition, then_branch.val, <<>>), then_branch.p)
    [] OTHER -> if_end(condition, then_branch.val, statement(advance(then_branch.p)))

if_then(condition) ==
  IF condition.ok THEN if_else(condition.val, statement(condition.p)) ELSE condition

if_statement(p) == if_then(paren_condition(p))

while_end(condition, body) ==
  IF body.ok THEN POk(StmtWhile(condition, body.val), body.p) ELSE body

while_body(condition) ==
  IF condition.ok THEN while_end(condition.val, statement(condition.p)) ELSE condition

while_statement(p) == while_body(paren_condition(p))

\* Stmt::Block of what block() returned
block_statement(b) == IF b.ok THEN POk(StmtBlock(b.val), b.p) ELSE b

statement(p) ==
  LET q == advance(p)
      tt == IF is_at_end(p) THEN "Eof" ELSE previous(q).token_type IN
  CASE tt = "For" -> for_statement(q)
    [] tt = "If" -> if_statement(q)
    [] tt = "While" -> while_statement(q)
    [] tt = "LeftBrace" -> block_statement(block(q))
    [] tt = "Return" -> return_statement(q)
    [] OTHER -> expression_statement(IF tt = "Eof" THEN p ELSE [q EXCEPT !.current = @ - 1])

\* synchronize that leaves the cursor where the error was found
synchronize_in_place(p) == p

\* the loop of synchronize(), after its first advance()
synchronize_loop(p) ==
  CASE is_at_end(p) -> p
    [] previous(p).token_type = "Semicolon" -> p
    [] peek(p).token_type \in {"Class", "Fun", "Var", "For", "If", "While", "Return"} -> p
    [] OTHER -> synchronize_loop(advance(p))

synchronize(p) == synchronize_loop(advance(p))

\* declaration(): the match on the result
declaration_end(res) == IF res.ok THEN res ELSE PErr(synchronize(res.p))

declaration(p) ==
  declaration_end(CASE matched(p, {"Var"}) -> var_declaration(advance(p))
                    [] matched(p, {"Fun"}) -> fun_declaration(advance(p))
                    [] OTHER -> statement(p))


(***************************************************************************)
(* Interpreter state (interpreter.rs struct Interpreter) with the heap of  *)
(* the cells its Rc pointers reach:                                        *)
(*   environment, globals : indices of environment cells                   *)
(*   locals               : the side-table, Expr (by uuid) -> hop count    *)
(*   envs                 : environment cells [values, enclosing];         *)
(*                          enclosing 0 is None                            *)
(*   instances            : instance cells [class, fields]                 *)
(*   stdout, stderr       : what println! and report() have written        *)
(*   blocks               : history of the execute_block calls that have   *)
(*                          returned (observation only; nothing reads it)  *)
(***************************************************************************)
Environment_new == [values |-> EmptyMap, enclosing |-> 0]
Environment_new_with_enclosing(enclosing) == [values |-> EmptyMap, enclosing |-> enclosing]

Interpreter_new ==
  [environment |-> 1, globals |-> 1, locals |-> EmptyMap,
   envs |-> <<[values |-> insert(insert(EmptyMap, "clock", NativeFunction("clock", 0)),
                                 "print", NativeFunction("print", 1)),
               enclosing |-> 0]>>,
   instances |-> <<>>, stdout |-> <<>>, stderr |-> <<>>, blocks |-> <<>>,
   hops |-> <<>>, writes |-> <<>>]

\* crate::report / crate::error: one diagnostic line on stderr
report(it, message) == [it EXCEPT !.stderr = Append(@, message)]

\* Interpreter::resolve.  `writes` is the history of its calls: the node of
\* each call, in the order of the calls.
note_write(it, expr_uuid) == [it EXCEPT !.writes = Append(@, expr_uuid)]

Interpreter_resolve(it, expr_uuid, depth) ==
  note_write([it EXCEPT !.locals = insert(@, expr_uuid, depth)], expr_uuid)

(***************************************************************************)
(* Resolver (resolver.rs).  A resolver value holds the scope stack         *)
(* (innermost last), current_function, current_class and the interpreter   *)
(* it writes to.  Every visit returns [ok, r]: Ok(()) or Err(ParseError),   *)
(* and the resolver after the call.                                        *)
(***************************************************************************)
Resolver_new(interpreter) ==
  [interpreter |-> interpreter, scopes |-> <<>>,
   current_function |-> "None", current_class |-> "None"]

ROk(r) == [ok |-> TRUE, r |-> r]
RErr(r) == [ok |-> FALSE, r |-> r]
rerror(r, message) == [r EXCEPT !.interpreter = report(@, message)]

begin_scope(r) == [r EXCEPT !.scopes = Append(@, EmptyMap)]
end_scope(r) == [r EXCEPT !.scopes = SubSeq(@, 1, Len(@) - 1)]

\* declare that keeps a scope for the top level of the program
declare_top_level_scoped(r, name) ==
  LET g == IF r.scopes = <<>> THEN begin_scope(r) ELSE r IN
  IF contains_key(g.scopes[Len(g.scopes)], name.lexeme)
  THEN RErr(rerror(r, <<"Already a variable with this name in this scope.", name.lexeme>>))
  ELSE ROk([g EXCEPT !.scopes[Len(g.scopes)] = insert(@, name.lexeme, FALSE)])

\* declare that does not look for the name in the innermost scope
declare_unchecked(r, name) ==
  IF r.scopes # <<>>
  THEN ROk([r EXCEPT !.scopes[Len(r.scopes)] = insert(@, name.lexeme, FALSE)])
  ELSE ROk(r)

declare(r, name) ==
  IF r.scopes # <<>> THEN
    IF contains_key(r.scopes[Len(r.scopes)], name.lexeme)
    THEN RErr(rerror(r, <<"Already a variable with this name in this scope.", name.lexeme>>))
    ELSE ROk([r EXCEPT !.scopes[Len(r.scopes)] = insert(@, name.lexeme, FALSE)])
  ELSE ROk(r)

define(r, name) ==
  IF r.scopes # <<>>
  THEN [r EXCEPT !.scopes[Len(r.scopes)] = insert(@, name.lexeme, TRUE)]
  ELSE r

\* The loop of resolve_local: scope j (1-based; index i = j - 1 in the source)
\* down to the outermost one.  The loop body has no break or return.
RECURSIVE resolve_local_loop(_, _, _, _)
resolve_local_loop(r, expr_uuid, name, j) ==
  IF j = 0 THEN r
  ELSE
    LET r1 == IF contains_key(r.scopes[j], name.lexeme)
              THEN [r EXCEPT !.interpreter =
                      Interpreter_resolve(@, expr_uuid, Len(r.scopes) - j)]
              ELSE r IN
    resolve_local_loop(r1, expr_uuid, name, j - 1)

resolve_local(r, expr_uuid, name) == resolve_local_loop(r, expr_uuid, name, Len(r.scopes))

RECURSIVE resolve_stmt(_, _), resolve_expr(_, _), resolve_statements(_, _)
RECURSIVE resolve_exprs(_, _), resolve_function(_, _, _), resolve_params(_, _)
RECURSIVE resolve_methods(_, _)

\* `for stmt in statements { self.resolve_stmt(stmt)?; }`
resolve_statements(r, statements) ==
  IF statements = <<>> THEN ROk(r)
  ELSE LET s == resolve_stmt(r, Head(statements)) IN
       IF ~s.ok THEN s ELSE resolve_statements(s.r, Tail(statements))

\* `for arg in &expr.arguments { self.resolve_expr(arg)?; }`
resolve_exprs(r, exprs) ==
  IF exprs = <<>> THEN ROk(r)
  ELSE LET s == resolve_expr(r, Head(exprs)) IN
       IF ~s.ok THEN s ELSE resolve_exprs(s.r, Tail(exprs))

\* `for param in function.params.iter() { self.declare(param)?; self.define(param); }`
resolve_params(r, params) ==
  IF params = <<>> THEN ROk(r)
  ELSE LET d == declare(r, Head(params)) IN
       IF ~d.ok THEN d ELSE resolve_params(define(d.r, Head(params)), Tail(params))

\* resolve_function that leaves current_function as the function set it
resolve_function_unrestored(r, function, function_type) ==
  LET r1 == begin_scope([r EXCEPT !.current_function = function_type])
      ps == resolve_params(r1, function.params) IN
  IF ~ps.ok THEN ps
  ELSE LET b == resolve_statements(ps.r, function.body) IN
       IF ~b.ok THEN b ELSE ROk(end_scope(b.r))

resolve_function(r, function, function_type) ==
  LET enclosing_fn == r.current_function
      r1 == begin_scope([r EXCEPT !.current_function = function_type])
      ps == resolve_params(r1, function.params) IN
  IF ~ps.ok THEN ps
  ELSE LET b == resolve_statements(ps.r, function.body) IN
       IF ~b.ok THEN b
       ELSE ROk([end_scope(b.r) EXCEPT !.current_function = enclosing_fn])

Resolver_visit_variable(r, expr) ==
  IF /\ r.scopes # <<>>
     /\ contains_key(r.scopes[Len(r.scopes)], expr.name.lexeme)
     /\ r.scopes[Len(r.scopes)][expr.name.lexeme] = FALSE
  THEN RErr(rerror(r, <<"Can't read local variable in its own initializer.",
                        expr.name.lexeme>>))
  ELSE ROk(resolve_local(r, expr.uuid, expr.name))

Resolver_visit_assignment(r, expr) ==
  LET v == resolve_expr(r, expr.value) IN
  IF ~v.ok THEN v ELSE ROk(resolve_local(v.r, expr.uuid, expr.name))

Resolver_visit_self_expr(r, expr) ==
  IF r.current_class = "None"
  THEN RErr(rerror(r, <<"Can't use 'this' ouside of a class.">>))
  ELSE ROk(resolve_local(r, expr.uuid, expr.keyword))

resolve_expr(r, expr) ==
  CASE expr.type = "Variable" -> Resolver_visit_variable(r, expr)
    [] expr.type = "Assignment" -> Resolver_visit_assignment(r, expr)
    [] expr.type \in {"Binary", "Logical"} ->
         LET l == resolve_expr(r, expr.left) IN
         IF ~l.ok THEN l ELSE resolve_expr(l.r, expr.right)
    [] expr.type = "Call" ->
         LET c == resolve_expr(r, expr.callee) IN
         IF ~c.ok THEN c ELSE resolve_exprs(c.r, expr.arguments)
    [] expr.type = "Grouping" -> resolve_expr(r, expr.expr)
    [] expr.type = "Literal" -> ROk(r)
    [] expr.type = "Unary" -> resolve_expr(r, expr.right)
    [] expr.type = "Get" -> resolve_expr(r, expr.object)
    [] expr.type = "Set" ->
         LET v == resolve_expr(r, expr.value) IN
         IF ~v.ok THEN v ELSE resolve_expr(v.r, expr.object)
    [] expr.type = "SelfExpr" -> Resolver_visit_self_expr(r, expr)

Resolver_visit_block(r, stmt) ==
  LET b == resolve_statements(begin_scope(r), stmt.statements) IN
  IF ~b.ok THEN b ELSE ROk(end_scope(b.r))

\* the method loop of visit_class; only Stmt::Function members are resolved
resolve_methods(r, methods) ==
  IF methods = <<>> THEN ROk(r)
  ELSE
    LET method == Head(methods) IN
    IF method.type = "Function" THEN
      LET function_type == IF method.name.lexeme = "new" THEN "Initializer" ELSE "Method"
          f == resolve_function(r, method, function_type) IN
      IF ~f.ok THEN f ELSE resolve_methods(f.r, Tail(methods))
    ELSE resolve_methods(r, Tail(methods))

Resolver_visit_class(r, stmt) ==
  LET enclosing_class == r.current_class
      d == declare([r EXCEPT !.current_class = "Class"], stmt.name) IN
  IF ~d.ok THEN d
  ELSE
    LET r1 == begin_scope(define(d.r, stmt.name))
        r2 == [r1 EXCEPT !.scopes[Len(r1.scopes)] = insert(@, "self", TRUE)]
        m == resolve_methods(r2, stmt.methods) IN
    IF ~m.ok THEN m
    ELSE ROk([end_scope(m.r) EXCEPT !.current_class = enclosing_class])

Resolver_visit_if(r, stmt) ==
  LET c == resolve_expr(r, stmt.condition) IN
  IF ~c.ok THEN c
  ELSE LET t == resolve_stmt(c.r, stmt.then_branch) IN
       IF ~t.ok THEN t
       ELSE IF stmt.else_branch # <<>> THEN resolve_stmt(t.r, stmt.else_branch[1])
       ELSE t

\* visit_var that defines the name before it resolves the initializer
Resolver_visit_var_defined_first(r, stmt) ==
  LET d == declare(r, stmt.name) IN
  IF ~d.ok THEN d
  ELSE LET i == resolve_expr(define(d.r, stmt.name), stmt.initializer) IN
       IF ~i.ok THEN i ELSE ROk(define(i.r, stmt.name))

Resolver_visit_var(r, stmt) ==
  LET d == declare(r, stmt.name) IN
  IF ~d.ok THEN d
  ELSE LET i == resolve_expr(d.r, stmt.initializer) IN
       IF ~i.ok THEN i ELSE ROk(define(i.r, stmt.name))

Resolver_visit_while(r, stmt) ==
  LET c == resolve_expr(r, stmt.condition) IN
  IF ~c.ok THEN c ELSE resolve_stmt(c.r, stmt.body)

Resolver_visit_function(r, stmt) ==
  LET d == declare(r, stmt.name) IN
  IF ~d.ok THEN d ELSE resolve_function(define(d.r, stmt.name), stmt, "Function")

\* visit_return that lets an initializer return the nil literal
Resolver_visit_return_nil_allowed(r, stmt) ==
  IF r.current_function = "None"
  THEN RErr(rerror(r, <<"Can't return without enclosing function!">>))
  ELSE IF r.current_function = "Initializer" /\ stmt.value.type # "Literal"
  THEN RErr(rerror(r, <<"Can't return from an initializer!">>))
  ELSE resolve_expr(r, stmt.value)

Resolver_visit_return(r, stmt) ==
  IF r.current_function = "None"
  THEN RErr(rerror(r, <<"Can't return without enclosing function!">>))
  ELSE IF r.current_function = "Initializer"
  THEN RErr(rerror(r, <<"Can't return from an initializer!">>))
  ELSE resolve_expr(r, stmt.value)

resolve_stmt(r, stmt) ==
  CASE stmt.type = "Block" -> Resolver_visit_block(r, stmt)
    [] stmt.type = "Class" -> Resolver_visit_class(r, stmt)
    [] stmt.type = "Expression" -> resolve_expr(r, stmt.expr)
    [] stmt.type = "If" -> Resolver_visit_if(r, stmt)
    [] stmt.type = "Var" -> Resolver_visit_var(r, stmt)
    [] stmt.type = "While" -> Resolver_visit_while(r, stmt)
    [] stmt.type = "Function" -> Resolver_visit_function(r, stmt)
    [] stmt.type = "Return" -> Resolver_visit_return(r, stmt)


(***************************************************************************)
(* Results of the interpreter: Result<LiteralType, Exit> (and Result<(),   *)
(* Exit>, whose Ok carries Nil here) with the interpreter after the call.  *)
(* res is "Ok", "RuntimeError" (Exit::RuntimeError), "Return"              *)
(* (Exit::Return(val)) or "Panic" (the thread panicked: unwrap() on None,  *)
(* unreachable!()).                                                        *)
(***************************************************************************)
EOk(val, it) == [res |-> "Ok", val |-> val, it |-> it]
EErr(it) == [res |-> "RuntimeError", val |-> Nil, it |-> it]
EReturn(val, it) == [res |-> "Return", val |-> val, it |-> it]
EPanic(it) == [res |-> "Panic", val |-> Nil, it |-> it]

(***************************************************************************)
(* Environment (environment.rs), on the cell with index e.                 *)
(***************************************************************************)
Environment_define(it, e, name, value) ==
  [it EXCEPT !.envs[e].values = insert(@, name, value)]

RECURSIVE Environment_assign(_, _, _, _), Environment_get(_, _, _)
RECURSIVE Environment_get_at(_, _, _, _), Environment_assign_at(_, _, _, _, _)

\* assign that writes into the frame it is called on, as define does
Environment_assign_defining(it, e, name, value) ==
  EOk(Nil, Environment_define(it, e, name.lexeme, value))

Environment_assign(it, e, name, value) ==
  IF contains_key(it.envs[e].values, name.lexeme)
  THEN EOk(Nil, [it EXCEPT !.envs[e].values = insert(@, name.lexeme, value)])
  ELSE IF it.envs[e].enclosing # 0
  THEN Environment_assign(it, it.envs[e].enclosing, name, value)
  ELSE EErr(report(it, <<"Assigning to undefinied variable", name.lexeme>>))

Environment_get(it, e, name) ==
  IF contains_key(it.envs[e].values, name.lexeme)
  THEN EOk(it.envs[e].values[name.lexeme], it)
  ELSE IF it.envs[e].enclosing # 0
  THEN Environment_get(it, it.envs[e].enclosing, name)
  ELSE EErr(report(it, <<"Undefinied variable", name.lexeme>>))

Environment_get_at(it, e, distance, name) ==
  IF distance = 0 THEN Environment_get(it, e, name)
  ELSE IF it.envs[e].enclosing = 0 THEN EPanic(it)
  ELSE Environment_get_at(it, it.envs[e].enclosing, distance - 1, name)

Environment_assign_at(it, e, distance, name, value) ==
  IF distance = 0 THEN EOk(Nil, Environment_define(it, e, name.lexeme, value))
  ELSE IF it.envs[e].enclosing = 0 THEN EPanic(it)
  ELSE Environment_assign_at(it, it.envs[e].enclosing, distance - 1, name, value)

(***************************************************************************)
(* Numbers.  f64 is modelled by the integers and three non-finite values;  *)
(* a quotient that is not an integer is cut towards zero.                  *)
(***************************************************************************)
NonFinite(k) == [tag |-> "Number", nf |-> k]
IsFinite(x) == "v" \in DOMAIN x
Abs(n) == IF n < 0 THEN -n ELSE n
TruncDiv(l, r) ==
  IF (l >= 0) = (r > 0) THEN Abs(l) \div Abs(r) ELSE -(Abs(l) \div Abs(r))
Arithmetic(op, l, r) ==
  IF ~IsFinite(l) \/ ~IsFinite(r) THEN NonFinite("NaN")
  ELSE CASE op = "Minus" -> Number(l.v - r.v)
         [] op = "Plus" -> Number(l.v + r.v)
         [] op = "Star" -> Number(l.v * r.v)
         [] op = "Slash" ->
              IF r.v # 0 THEN Number(TruncDiv(l.v, r.v))
              ELSE IF l.v = 0 THEN NonFinite("NaN")
              ELSE IF l.v > 0 THEN NonFinite("inf") ELSE NonFinite("-inf")
         [] op = "Percentage" ->
              IF r.v # 0 THEN Number(l.v - r.v * TruncDiv(l.v, r.v))
              ELSE NonFinite("NaN")
Rank(x) == IF IsFinite(x) THEN 0 ELSE IF x.nf = "inf" THEN 1 ELSE -1
NumLess(l, r) ==
  IF IsFinite(l) /\ IsFinite(r) THEN l.v < r.v
  ELSE IF (~IsFinite(l) /\ l.nf = "NaN") \/ (~IsFinite(r) /\ r.nf = "NaN") THEN FALSE
  ELSE Rank(l) < Rank(r)
NumEqual(l, r) ==
  IF IsFinite(l) /\ IsFinite(r) THEN l.v = r.v
  ELSE IF IsFinite(l) \/ IsFinite(r) THEN FALSE
  ELSE l.nf = r.nf /\ l.nf # "NaN"

(***************************************************************************)
(* Interpreter (interpreter.rs) and callables (lox_callable.rs).           *)
(***************************************************************************)
is_truthy(value) ==
  CASE value.tag = "Nil" -> FALSE
    [] value.tag = "Boolean" -> value.v
    [] OTHER -> TRUE

\* is_equal that takes any two values of one variant as equal when the
\* variant is none of Number, String and Boolean
is_equal_by_variant(left, right) ==
  CASE left.tag = "Number" /\ right.tag = "Number" -> NumEqual(left, right)
    [] left.tag = "String" /\ right.tag = "String" -> left.v = right.v
    [] left.tag = "Boolean" /\ right.tag = "Boolean" -> left.v = right.v
    [] OTHER -> left.tag = right.tag

is_equal(left, right) ==
  CASE left.tag = "Number" /\ right.tag = "Number" -> NumEqual(left, right)
    [] left.tag = "String" /\ right.tag = "String" -> left.v = right.v
    [] left.tag = "Boolean" /\ right.tag = "Boolean" -> left.v = right.v
    [] left.tag = "Nil" /\ right.tag = "Nil" -> TRUE
    [] OTHER -> FALSE

\* the match on the operator of visit_binary, both operands evaluated
binary_operator(it, operator, left, right) ==
  LET op == operator.token_type
      numbers == left.tag = "Number" /\ right.tag = "Number" IN
  CASE op = "Minus" ->
         IF numbers THEN EOk(Arithmetic(op, left, right), it) ELSE EErr(it)
    [] op \in {"Slash", "Percentage", "Star"} ->
         IF numbers THEN EOk(Arithmetic(op, left, right), it)
         ELSE EErr(report(it, <<"Both operands must be a number", operator.lexeme,
                                left, right>>))
    [] op = "Plus" ->
         IF numbers THEN EOk(Arithmetic(op, left, right), it)
         ELSE IF left.tag = "String" /\ right.tag = "String"
         THEN EOk(String(left.v \o right.v), it)
         ELSE EErr(report(it, <<"Both operands must be a number or string", "*",
                                left, right>>))
    [] op \in {"Greater", "Less", "GreaterEqual", "LessEqual"} ->
         IF numbers THEN
           EOk(Boolean(CASE op = "Greater" -> NumLess(right, left)
                         [] op = "Less" -> NumLess(left, right)
                         [] op = "GreaterEqual" -> NumLess(right, left) \/ NumEqual(left, right)
                         [] op = "LessEqual" -> NumLess(left, right) \/ NumEqual(left, right)),
               it)
         ELSE EErr(report(it, <<"Can't compare", left, right>>))
    [] op = "EqualEqual" -> EOk(Boolean(is_equal(left, right)), it)
    [] op = "BangEqual" -> EOk(Boolean(~is_equal(left, right)), it)
    [] OTHER -> EPanic(it)

\* LoxClass::find_method: <<>> is None, <<f>> is Some(f)
RECURSIVE find_method(_, _)
find_method(class, name) ==
  IF contains_key(class.methods, name) THEN <<class.methods[name]>>
  ELSE IF class.superclass # <<>> THEN find_method(class.superclass[1], name)
  ELSE <<>>

\* LoxCallable::arity of the three implementations
arity(callee) ==
  CASE callee.tag = "NativeFunction" -> callee.arity
    [] callee.tag = "Function" -> Len(callee.declaration.params)
    [] callee.tag = "Class" ->
         LET initializer == find_method(callee, "new") IN
         IF initializer # <<>> THEN Len(initializer[1].declaration.params) ELSE 0

\* check_arity that only refuses a call with too few arguments
check_arity_too_few(it, callee, args_len) ==
  IF args_len < arity(callee)
  THEN EErr(report(it, <<"Expected arguments but got", arity(callee), args_len>>))
  ELSE EOk(Nil, it)

check_arity(it, callee, args_len) ==
  IF args_len # arity(callee)
  THEN EErr(report(it, <<"Expected arguments but got", arity(callee), args_len>>))
  ELSE EOk(Nil, it)

\* LoxFunction::bind: a new environment cell that encloses the closure and
\* defines "self"; the result is the bound function and the interpreter
bind(it, func, instance) ==
  LET environment == Len(it.envs) + 1
      env == [values |-> insert(EmptyMap, "self", InstanceRef(instance)),
              enclosing |-> func.closure] IN
  [func |-> [func EXCEPT !.closure = environment],
   it |-> [it EXCEPT !.envs = Append(@, env)]]

\* LoxInstance::get on the instance cell `instance`
LoxInstance_get(it, instance, name) ==
  LET this == it.instances[instance] IN
  IF contains_key(this.fields, name.lexeme) THEN EOk(this.fields[name.lexeme], it)
  ELSE
    LET method == find_method(this.class, name.lexeme) IN
    IF method # <<>> THEN
      \* method.bind(Rc::new(RefCell::new(self.to_owned()))): a new cell that
      \* holds a clone of this instance
      LET owned == Len(it.instances) + 1
          b == bind([it EXCEPT !.instances = Append(@, this)], method[1], owned) IN
      EOk(b.func, b.it)
    ELSE
      EErr(report([it EXCEPT !.stdout = Append(@, <<"Fields set", this.fields>>)],
                  <<"Undefined property", name.lexeme>>))

LoxInstance_set(it, instance, name, value) ==
  [it EXCEPT !.instances[instance].fields = insert(@, name.lexeme, value)]

\* NativeFunction::call of the two functions Interpreter::new registers.  The
\* reading of the system clock is an input of the run; it is the epoch here.
NativeFunction_call(it, func, args) ==
  IF func.name = "print"
  THEN EOk(Nil, [it EXCEPT !.stdout = Append(@, args[1])])
  ELSE EOk(Number(0), it)

SelfToken == Token("SelfKW", "self", Nil)

RECURSIVE evaluate(_, _), execute(_, _), execute_statements(_, _)
RECURSIVE execute_block(_, _, _), evaluate_arguments(_, _, _)
RECURSIVE LoxFunction_call(_, _, _), LoxClass_call(_, _, _), visit_while(_, _)

\* `for (param, arg) in params.iter().zip(arguments) { env.define(..) }`
RECURSIVE define_params(_, _, _)
define_params(env, params, arguments) ==
  IF params = <<>> \/ arguments = <<>> THEN env
  ELSE define_params([env EXCEPT !.values = insert(@, Head(params).lexeme, Head(arguments))],
                     Tail(params), Tail(arguments))

\* execute_block with `self.environment = previous` reached only when the
\* statements returned Ok, as with `try_for_each(..)?` before it
execute_block_early_return(it, statements, env) ==
  LET previous_env == it.environment
      installed == Len(it.envs) + 1
      result == execute_statements(
                  [it EXCEPT !.envs = Append(@, env), !.environment = installed],
                  statements) IN
  IF result.res = "Panic" THEN result
  ELSE
    LET it1 == IF result.res = "Ok" THEN [result.it EXCEPT !.environment = previous_env]
               ELSE result.it IN
    [result EXCEPT !.it =
       [it1 EXCEPT !.blocks = Append(@, [previous |-> previous_env, installed |-> installed,
                                         result |-> result.res,
                                         after |-> it1.environment])]]

\* LoxFunction::call without the `Err(Exit::Return(..))` arm: the Exit of
\* the body is passed on with `?`
LoxFunction_call_uncaught(it, func, arguments) ==
  LET env == define_params(Environment_new_with_enclosing(func.closure),
                           func.declaration.params, arguments)
      i == execute_block(it, func.declaration.body, env) IN
  IF i.res # "Ok" THEN i
  ELSE IF func.is_initializer THEN Environment_get_at(i.it, func.closure, 0, SelfToken)
  ELSE EOk(Nil, i.it)

\* Interpreter::execute_block: env becomes a new cell and the current
\* environment; the statements run up to the first Err; the previous
\* environment is put back.  A panic unwinds past the assignment.
execute_block(it, statements, env) ==
  LET previous_env == it.environment
      installed == Len(it.envs) + 1
      result == execute_statements(
                  [it EXCEPT !.envs = Append(@, env), !.environment = installed],
                  statements) IN
  IF result.res = "Panic" THEN result
  ELSE
    LET it1 == [result.it EXCEPT !.environment = previous_env] IN
    [result EXCEPT !.it =
       [it1 EXCEPT !.blocks = Append(@, [previous |-> previous_env, installed |-> installed,
                                         result |-> result.res,
                                         after |-> it1.environment])]]

\* `statements.iter().try_for_each(|stat| self.execute(stat))`
execute_statements(it, statements) ==
  IF statements = <<>> THEN EOk(Nil, it)
  ELSE LET s == execute(it, Head(statements)) IN
       IF s.res # "Ok" THEN s ELSE execute_statements(s.it, Tail(statements))

\* LoxFunction::call
LoxFunction_call(it, func, arguments) ==
  LET env == define_params(Environment_new_with_enclosing(func.closure),
                           func.declaration.params, arguments)
      i == execute_block(it, func.declaration.body, env) IN
  IF i.res = "Panic" THEN i
  ELSE IF i.res = "Return" THEN EOk(i.val, i.it)
  ELSE IF i.res = "RuntimeError" THEN EErr(i.it)
  ELSE IF func.is_initializer THEN Environment_get_at(i.it, func.closure, 0, SelfToken)
  ELSE EOk(Nil, i.it)

\* LoxClass::call
LoxClass_call(it, class, args) ==
  LET instance == Len(it.instances) + 1
      it1 == [it EXCEPT !.instances = Append(@, [class |-> class, fields |-> EmptyMap])]
      initializer == find_method(class, "new") IN
  IF initializer # <<>> THEN
    LET b == bind(it1, initializer[1], instance)
        c == LoxFunction_call(b.it, b.func, args) IN
    IF c.res # "Ok" THEN c ELSE EOk(InstanceRef(instance), c.it)
  ELSE EOk(InstanceRef(instance), it1)

\* the argument loop of visit_call; val is the vector of values so far
evaluate_arguments(it, arguments, values) ==
  IF arguments = <<>> THEN EOk(values, it)
  ELSE LET a == evaluate(it, Head(arguments)) IN
       IF a.res # "Ok" THEN a
       ELSE evaluate_arguments(a.it, Tail(arguments), Append(values, a.val))

\* visit_call that looks at the callee and the argument count before it
\* evaluates the arguments
visit_call_checked_first(it, expr) ==
  LET callee == evaluate(it, expr.callee) IN
  IF callee.res # "Ok" THEN callee
  ELSE IF callee.val.tag \in {"NativeFunction", "Function", "Class"} THEN
    LET a == check_arity(callee.it, callee.val, Len(expr.arguments)) IN
    IF a.res # "Ok" THEN a
    ELSE
      LET arguments == evaluate_arguments(a.it, expr.arguments, <<>>) IN
      IF arguments.res # "Ok" THEN arguments
      ELSE CASE callee.val.tag = "NativeFunction" ->
                  NativeFunction_call(arguments.it, callee.val, arguments.val)
             [] callee.val.tag = "Function" ->
                  LoxFunction_call(arguments.it, callee.val, arguments.val)
             [] callee.val.tag = "Class" ->
                  LoxClass_call(arguments.it, callee.val, arguments.val)
  ELSE EErr(report(callee.it, <<"Can only call functions/methods">>))

visit_call(it, expr) ==
  LET callee == evaluate(it, expr.callee) IN
  IF callee.res # "Ok" THEN callee
  ELSE
    LET arguments == evaluate_arguments(callee.it, expr.arguments, <<>>) IN
    IF arguments.res # "Ok" THEN arguments
    ELSE IF callee.val.tag \in {"NativeFunction", "Function", "Class"} THEN
      LET a == check_arity(arguments.it, callee.val, Len(arguments.val)) IN
      IF a.res # "Ok" THEN a
      ELSE CASE callee.val.tag = "NativeFunction" ->
                  NativeFunction_call(a.it, callee.val, arguments.val)
             [] callee.val.tag = "Function" ->
                  LoxFunction_call(a.it, callee.val, arguments.val)
             [] callee.val.tag = "Class" ->
                  LoxClass_call(a.it, callee.val, arguments.val)
    ELSE EErr(report(arguments.it, <<"Can only call functions/methods">>))

visit_binary(it, expr) ==
  LET left == evaluate(it, expr.left) IN
  IF left.res # "Ok" THEN left
  ELSE LET right == evaluate(left.it, expr.right) IN
       IF right.res # "Ok" THEN right
       ELSE binary_operator(right.it, expr.operator, left.val, right.val)

\* visit_logical evaluating both operands before it looks at the left value
visit_logical_eager(it, expr) ==
  LET left == evaluate(it, expr.left) IN
  IF left.res # "Ok" THEN left
  ELSE
    LET right == evaluate(left.it, expr.right) IN
    IF right.res # "Ok" THEN right
    ELSE IF expr.operator.token_type \in {"Or", "BarBar"} THEN
      IF is_truthy(left.val) THEN EOk(left.val, right.it) ELSE right
    ELSE IF ~is_truthy(left.val) THEN EOk(left.val, right.it)
    ELSE right

visit_logical(it, expr) ==
  LET left == evaluate(it, expr.left) IN
  IF left.res # "Ok" THEN left
  ELSE IF expr.operator.token_type \in {"Or", "BarBar"} THEN
    IF is_truthy(left.val) THEN left ELSE evaluate(left.it, expr.right)
  ELSE IF ~is_truthy(left.val) THEN left
  ELSE evaluate(left.it, expr.right)

visit_unary(it, expr) ==
  LET right == evaluate(it, expr.right) IN
  IF right.res # "Ok" THEN right
  ELSE CASE expr.operator.token_type = "Minus" ->
              IF right.val.tag = "Number"
              THEN EOk(Arithmetic("Minus", Number(0), right.val), right.it)
              ELSE EErr(report(right.it, <<"Operand of '-' must be a number", right.val>>))
         [] expr.operator.token_type = "Bang" -> EOk(Boolean(~is_truthy(right.val)), right.it)
         [] OTHER -> EPanic(right.it)

\* the frame that lies `distance` links outward from frame e, 0 when the
\* chain ends before
RECURSIVE FrameAt(_, _, _)
FrameAt(envs, e, distance) ==
  IF distance = 0 THEN e
  ELSE IF envs[e].enclosing = 0 THEN 0
  ELSE FrameAt(envs, envs[e].enclosing, distance - 1)

\* History of the uses of the side table: `hops` gets, for every read or
\* assignment that has a hop, the name, the hop, the frame that lies that
\* many links outward from the current one (0 when the chain is shorter) and
\* whether that frame holds the name.
hop_entry(envs, name, distance, frame) ==
  [name |-> name.lexeme, distance |-> distance, frame |-> frame,
   found |-> frame # 0 /\ contains_key(envs[frame].values, name.lexeme)]

\* r is what get_at or assign_at returned when called in interpreter `it`
note_hop(r, it, name, distance) ==
  [r EXCEPT !.it.hops =
     Append(@, hop_entry(it.envs, name, distance,
                         FrameAt(it.envs, it.environment, distance)))]

look_up_variable(it, name, expr_uuid) ==
  IF contains_key(it.locals, expr_uuid)
  THEN note_hop(Environment_get_at(it, it.environment, it.locals[expr_uuid], name),
                it, name, it.locals[expr_uuid])
  ELSE Environment_get(it, it.globals, name)

\* visit_assignment: the branch `if let Some(d) = distance`
assign_local(it, expr, value) ==
  note_hop(Environment_assign_at(it, it.environment, it.locals[expr.uuid], expr.name, value),
           it, expr.name, it.locals[expr.uuid])

\* visit_assignment that, without a hop, assigns through the chain of the
\* current environment
visit_assignment_through_chain(it, expr) ==
  LET value == evaluate(it, expr.value) IN
  IF value.res # "Ok" THEN value
  ELSE
    LET a == IF contains_key(value.it.locals, expr.uuid)
             THEN assign_local(value.it, expr, value.val)
             ELSE Environment_assign(value.it, value.it.environment, expr.name, value.val) IN
    IF a.res # "Ok" THEN a ELSE EOk(value.val, a.it)

visit_assignment(it, expr) ==
  LET value == evaluate(it, expr.value) IN
  IF value.res # "Ok" THEN value
  ELSE
    LET a == IF contains_key(value.it.locals, expr.uuid)
             THEN assign_local(value.it, expr, value.val)
             ELSE Environment_assign(value.it, value.it.globals, expr.name, value.val) IN
    IF a.res # "Ok" THEN a ELSE EOk(value.val, a.it)

visit_get(it, expr) ==
  LET object == evaluate(it, expr.object) IN
  IF object.res # "Ok" THEN object
  ELSE IF object.val.tag = "Instance" THEN LoxInstance_get(object.it, object.val.ref, expr.name)
  ELSE EErr(report(object.it, <<"Only instances have properties.">>))

visit_set(it, expr) ==
  LET object == evaluate(it, expr.object) IN
  IF object.res # "Ok" THEN object
  ELSE IF object.val.tag = "Instance" THEN
    LET value == evaluate(object.it, expr.value) IN
    IF value.res # "Ok" THEN value
    ELSE EOk(value.val, LoxInstance_set(value.it, object.val.ref, expr.name, value.val))
  ELSE EErr(report(object.it, <<"Only instances have fields.">>))

evaluate(it, expr) ==
  CASE expr.type = "Assignment" -> visit_assignment(it, expr)
    [] expr.type = "Binary" -> visit_binary(it, expr)
    [] expr.type = "Call" -> visit_call(it, expr)
    [] expr.type = "Get" -> visit_get(it, expr)
    [] expr.type = "Grouping" -> evaluate(it, expr.expr)
    [] expr.type = "Literal" -> EOk(expr.value, it)
    [] expr.type = "Logical" -> visit_logical(it, expr)
    [] expr.type = "Unary" -> visit_unary(it, expr)
    [] expr.type = "Set" -> visit_set(it, expr)
    [] expr.type = "SelfExpr" -> look_up_variable(it, expr.keyword, expr.uuid)
    [] expr.type = "Variable" -> look_up_variable(it, expr.name, expr.uuid)

visit_if(it, stmt) ==
  LET cond == evaluate(it, stmt.condition) IN
  IF cond.res # "Ok" THEN cond
  ELSE IF is_truthy(cond.val) THEN execute(cond.it, stmt.then_branch)
  ELSE IF stmt.else_branch # <<>> THEN execute(cond.it, stmt.else_branch[1])
  ELSE EOk(Nil, cond.it)

visit_while(it, stmt) ==
  LET eval == evaluate(it, stmt.condition) IN
  IF eval.res # "Ok" THEN eval
  ELSE IF ~is_truthy(eval.val) THEN EOk(Nil, eval.it)
  ELSE LET b == execute(eval.it, stmt.body) IN
       IF b.res # "Ok" THEN b ELSE visit_while(b.it, stmt)

visit_var(it, stmt) ==
  LET val == evaluate(it, stmt.initializer) IN
  IF val.res # "Ok" THEN val
  ELSE EOk(Nil, Environment_define(val.it, val.it.environment, stmt.name.lexeme, val.val))

\* visit_block that runs the statements in the current environment
visit_block_no_frame(it, stmt) == execute_statements(it, stmt.statements)

visit_block(it, stmt) ==
  execute_block(it, stmt.statements, Environment_new_with_enclosing(it.environment))

visit_function(it, stmt) ==
  EOk(Nil, Environment_define(it, it.environment, stmt.name.lexeme,
                              LoxFunction_new(stmt, it.environment, FALSE)))

\* the method loop of visit_class: the map from method name to LoxFunction
RECURSIVE class_methods(_, _, _)
class_methods(it, methods, map) ==
  IF methods = <<>> THEN map
  ELSE
    LET method == Head(methods) IN
    IF method.type = "Function"
    THEN class_methods(it, Tail(methods),
           insert(map, method.name.lexeme,
                  LoxFunction_new(method, it.environment, method.name.lexeme = "new")))
    ELSE class_methods(it, Tail(methods), map)

\* visit_class builds the class from its name and its methods only:
\* stmt.superclass is neither evaluated nor handed to the class value.
visit_class(it, stmt) ==
  LET it1 == Environment_define(it, it.environment, stmt.name.lexeme, Nil)
      methods == class_methods(it1, stmt.methods, EmptyMap)
      class == LoxClass_new(stmt.name.lexeme, <<>>, methods)
      a == Environment_assign(it1, it1.environment, stmt.name, class) IN
  IF a.res # "Ok" THEN a ELSE EOk(Nil, a.it)

visit_return(it, stmt) ==
  LET value == evaluate(it, stmt.value) IN
  IF value.res # "Ok" THEN value ELSE EReturn(value.val, value.it)

execute(it, stmt) ==
  CASE stmt.type = "Block" -> visit_block(it, stmt)
    [] stmt.type = "Class" -> visit_class(it, stmt)
    [] stmt.type = "Expression" ->
         LET e == evaluate(it, stmt.expr) IN IF e.res # "Ok" THEN e ELSE EOk(Nil, e.it)
    [] stmt.type = "If" -> visit_if(it, stmt)
    [] stmt.type = "Var" -> visit_var(it, stmt)
    [] stmt.type = "While" -> visit_while(it, stmt)
    [] stmt.type = "Function" -> visit_function(it, stmt)
    [] stmt.type = "Return" -> visit_return(it, stmt)


(***************************************************************************)
(* The programs the pipeline is run on.  A program is named by a record    *)
(* of parameters; Source gives its text, already split into lexemes.       *)
(***************************************************************************)
MaxDepth == 1
MaxCalls == 2
MaxDecls == 2

Lexeme(n) == Digits[n + 1]

\* shadow: x is declared in an outer scope (the global scope, a block or a
\* function body) with value 0 and again in each of `depth` nested blocks
\* with values 1..depth; the innermost block reads x or assigns 9 to it and
\* prints it, and every scope prints x after the block it holds has exited.
RECURSIVE ShadowBlocks(_, _, _)
ShadowBlocks(level, depth, use) ==
  IF level > depth THEN
    (IF use = "assign" THEN <<"x", "=", "9", ";">> ELSE <<>>)
      \o <<"print", "(", "x", ")", ";">>
  ELSE <<"{", "var", "x", "=", Lexeme(level), ";">>
         \o ShadowBlocks(level + 1, depth, use)
         \o <<"}", "print", "(", "x", ")", ";">>

ShadowSource(prog) ==
  LET body == <<"var", "x", "=", "0", ";">> \o ShadowBlocks(1, prog.depth, prog.use) IN
  CASE prog.outer = "global" -> body
    [] prog.outer = "block" -> <<"{">> \o body \o <<"}">>
    [] prog.outer = "function" ->
         <<"fun", "f", "(", ")", "{">> \o body \o <<"}", "f", "(", ")", ";">>

ShadowPrograms ==
  {[family |-> "shadow", outer |-> o, use |-> u, depth |-> d] :
     o \in {"global", "block", "function"}, u \in {"read", "assign"}, d \in 1..MaxDepth}

\* counter: makeCounter returns a closure that increments and returns the
\* local i of makeCounter; two counters c and d are made, c is called
\* `calls` times and then d once, every result is printed.  With
\* `nested`, all of this sits in a block that has its own variable i.
RECURSIVE Repeat(_, _)
Repeat(n, text) == IF n = 0 THEN <<>> ELSE text \o Repeat(n - 1, text)

CounterSource(prog) ==
  LET body ==
        <<"fun", "makeCounter", "(", ")", "{",
            "var", "i", "=", "0", ";",
            "fun", "count", "(", ")", "{",
              "i", "=", "i", "+", "1", ";", "return", "i", ";", "}",
            "return", "count", ";", "}",
          "var", "c", "=", "makeCounter", "(", ")", ";",
          "var", "d", "=", "makeCounter", "(", ")", ";">>
        \o Repeat(prog.calls, <<"print", "(", "c", "(", ")", ")", ";">>)
        \o <<"print", "(", "d", "(", ")", ")", ";">> IN
  IF prog.nested THEN <<"{", "var", "i", "=", "7", ";">> \o body \o <<"}">> ELSE body

CounterPrograms ==
  {[family |-> "counter", nested |-> n, calls |-> c] : n \in BOOLEAN, c \in 1..MaxCalls}

\* return: return statements at several depths inside function bodies, and
\* outside of every function
ReturnSources ==
  [in_block |->
     <<"fun", "f", "(", ")", "{", "{", "{", "return", "1", ";", "}", "}", "return", "2", ";", "}",
       "print", "(", "f", "(", ")", ")", ";">>,
   in_if |->
     <<"fun", "f", "(", "a", ")", "{", "if", "(", "a", ")", "{", "return", "1", ";", "}",
       "else", "return", "2", ";", "}",
       "print", "(", "f", "(", "true", ")", ")", ";", "print", "(", "f", "(", "nil", ")", ")", ";">>,
   in_while |->
     <<"fun", "f", "(", ")", "{", "while", "true", "{", "return", "1", ";", "}", "}",
       "print", "(", "f", "(", ")", ")", ";">>,
   nested_fun |->
     <<"fun", "f", "(", ")", "{", "fun", "g", "(", ")", "{", "return", "1", ";", "}",
       "print", "(", "g", "(", ")", ")", ";", "return", "2", ";", "}",
       "print", "(", "f", "(", ")", ")", ";">>,
   bare |->
     <<"fun", "f", "(", ")", "{", "return", ";", "}", "print", "(", "f", "(", ")", ")", ";">>,
   no_return |->
     <<"fun", "f", "(", ")", "{", "var", "a", "=", "1", ";", "}",
       "print", "(", "f", "(", ")", ")", ";">>,
   top_level |-> <<"print", "(", "1", ")", ";", "return", "1", ";">>,
   top_level_block |-> <<"{", "if", "true", "return", "1", ";", "}">>,
   top_level_else |->
     <<"if", "(", "nil", ")", "print", "(", "1", ")", ";", "else", "return", "1", ";">>,
   top_level_while |-> <<"while", "true", "return", ";">>,
   after_fun |->
     <<"fun", "f", "(", ")", "{", "return", "1", ";", "}", "return", "f", "(", ")", ";">>]

ReturnPrograms == {[family |-> "return", name |-> n] : n \in DOMAIN ReturnSources}

\* failing: a runtime error raised inside nested blocks and calls
FailingSources ==
  [in_block |-> <<"var", "a", "=", "1", ";", "{", "var", "b", "=", "2", ";",
                  "{", "print", "(", "a", "+", "nil", ")", ";", "}", "}">>,
   in_call |-> <<"fun", "f", "(", ")", "{", "{", "missing", "(", ")", ";", "}", "}",
                 "{", "f", "(", ")", ";", "}", "print", "(", "1", ")", ";">>,
   in_arity |-> <<"fun", "f", "(", "a", ")", "{", "return", "a", ";", "}",
                  "{", "print", "(", "f", "(", ")", ")", ";", "}">>,
   not_callable |-> <<"var", "a", "=", "1", ";", "{", "{", "a", "(", ")", ";", "}", "}">>]

FailingPrograms == {[family |-> "failing", name |-> n] : n \in DOMAIN FailingSources}

\* decls: a sequence of at most MaxDecls top-level declarations, each one of
\* the chunks below.  Chunks 6 and 7 do not parse; a failed chunk is skipped
\* by synchronize up to and including its semicolon.
Chunks ==
  << <<"var", "a", "=", "1", ";">>,
     <<"print", "(", "a", ")", ";">>,
     <<"{", "var", "a", "=", "2", ";", "print", "(", "a", ")", ";", "}">>,
     <<"fun", "f", "(", ")", "{", "return", "3", ";", "}">>,
     <<"return", "f", "(", ")", ";">>,
     <<"var", "=", "1", ";">>,
     <<"print", "(", "(", "1", ";">>,
     <<"{", "var", "b", ";", "var", "b", ";", "}">> >>
ChunkParses == <<TRUE, TRUE, TRUE, TRUE, TRUE, FALSE, FALSE, TRUE>>
ChunkType == <<"Var", "Expression", "Block", "Function", "Return", "", "", "Block">>

RECURSIVE Concat(_)
Concat(texts) == IF texts = <<>> THEN <<>> ELSE Head(texts) \o Concat(Tail(texts))

DeclsSource(prog) == Concat([i \in 1..Len(prog.chunks) |-> Chunks[prog.chunks[i]]])

DeclsPrograms ==
  {[family |-> "decls", chunks |-> c] :
     c \in UNION {[1..n -> 1..Len(Chunks)] : n \in 0..MaxDecls}}

\* for: `for (var i = 0; i < n; i = i + 1) print(i);` at the top level, in
\* a block, in a function body, or in a block that has its own variable i
\* (shadowed); with `after`, `print(i);` follows the loop.  no_clauses is a
\* `for (;;)` loop that a return ends after n turns.
MaxIter == 2

ForLoop(n) ==
  <<"for", "(", "var", "i", "=", "0", ";", "i", "<", Digits[n + 1], ";",
    "i", "=", "i", "+", "1", ")", "print", "(", "i", ")", ";">>

ForSource(prog) ==
  LET loop == ForLoop(prog.n)
                \o (IF prog.after THEN <<"print", "(", "i", ")", ";">> ELSE <<>>) IN
  CASE prog.where = "top" -> loop
    [] prog.where = "block" -> <<"{">> \o loop \o <<"}">>
    [] prog.where = "function" ->
         <<"fun", "f", "(", ")", "{">> \o loop \o <<"}", "f", "(", ")", ";">>
    [] prog.where = "shadowed" ->
         <<"{", "var", "i", "=", "5", ";">> \o loop \o <<"}">>
    [] prog.where = "no_clauses" ->
         <<"fun", "f", "(", ")", "{", "var", "i", "=", "0", ";",
             "for", "(", ";", ";", ")", "{",
               "if", "(", "i", "==", Digits[prog.n + 1], ")", "return", ";",
               "print", "(", "i", ")", ";", "i", "=", "i", "+", "1", ";", "}", "}",
           "f", "(", ")", ";">>

ForPrograms ==
  {[family |-> "for", where |-> w, n |-> n, after |-> a] :
     w \in {"top", "block", "function", "shadowed", "no_clauses"},
     n \in 0..MaxIter, a \in BOOLEAN}
    \ {[family |-> "for", where |-> w, n |-> n, after |-> TRUE] :
         w \in {"shadowed", "no_clauses"}, n \in 0..MaxIter}

\* tokens: every sequence of at most MaxTokens lexemes of TokenAlphabet,
\* whether it is a program or not
MaxTokens == 3
TokenAlphabet == {"var", "a", "=", ";", "{", "}", "(", ")", "return"}

TokenPrograms ==
  {[family |-> "tokens", text |-> t] :
     t \in UNION {[1..n -> TokenAlphabet] : n \in 0..MaxTokens}}

Source(prog) ==
  CASE prog.family = "shadow" -> ShadowSource(prog)
    [] prog.family = "counter" -> CounterSource(prog)
    [] prog.family = "return" -> ReturnSources[prog.name]
    [] prog.family = "failing" -> FailingSources[prog.name]
    [] prog.family = "decls" -> DeclsSource(prog)
    [] prog.family = "for" -> ForSource(prog)
    [] prog.family = "tokens" -> prog.text

Programs ==
  ShadowPrograms \cup CounterPrograms \cup ReturnPrograms \cup FailingPrograms
    \cup DeclsPrograms \cup ForPrograms

(***************************************************************************)
(* Programs with classes.  Parser::statement and Parser::primary have no   *)
(* arm for `class`, `.` or `self`, so these programs are given as the      *)
(* statement vectors that Stmt::Class, Expr::Get, Expr::Set and            *)
(* Expr::SelfExpr describe, and go through the resolver and the            *)
(* interpreter.  Numbered gives every expression node of a vector its own  *)
(* uuid, as uuid_next() does.                                              *)
(***************************************************************************)
MaxWrites == 2
MaxValue == 2
MaxChain == 2

Identifier(name) == Token("Identifier", name, String(<<name>>))
AstNumber(n) == ExprLiteral(Number(n), 0)
AstVariable(name) == ExprVariable(Identifier(name), 0)
AstSelf == ExprSelfExpr(SelfToken, 0)
AstGet(object, name) == ExprGet(object, Identifier(name), 0)
AstSet(object, name, value) == ExprSet(object, Identifier(name), value, 0)
AstCall(callee, arguments) == ExprCall(callee, Token("RightParen", ")", Nil), arguments, 0)
AstPrint(expr) == StmtExpression(AstCall(AstVariable("print"), <<expr>>))
AstVar(name, initializer) == StmtVar(Identifier(name), initializer)
AstMethod(name, params, body) ==
  StmtFunction(Identifier(name), [i \in 1..Len(params) |-> Identifier(params[i])], body)
AstReturn(expr) == StmtReturn(Token("Return", "return", Nil), expr)
AstClass(name, superclass, methods) == StmtClass(Identifier(name), superclass, methods)
AstString(text) == ExprLiteral(String(<<text>>), 0)
AstNil == ExprLiteral(Nil, 0)
AstBoolean(b) == ExprLiteral(Boolean(b), 0)
AstBinary(left, lexeme, right) == ExprBinary(left, scan_token(lexeme), right, 0)
AstSum(left, right) == AstBinary(left, "+", right)
AstLogical(left, lexeme, right) == ExprLogical(left, scan_token(lexeme), right, 0)
AstAssign(name, value) == ExprAssignment(Identifier(name), value, 0)
AstNumbers(n) == [i \in 1..n |-> AstNumber(i)]

RECURSIVE number_expr(_, _), number_exprs(_, _, _), number_stmt(_, _), number_stmts(_, _, _)

\* uuid_next() for the node e whose children are numbered up to n
numbered(e, n) == [val |-> [e EXCEPT !.uuid = n + 1], n |-> n + 1]

number_expr(e, n) ==
  CASE e.type \in {"Literal", "Variable", "SelfExpr"} -> numbered(e, n)
    [] e.type = "Assignment" ->
         LET v == number_expr(e.value, n) IN numbered([e EXCEPT !.value = v.val], v.n)
    [] e.type \in {"Binary", "Logical"} ->
         LET l == number_expr(e.left, n)
             r == number_expr(e.right, l.n) IN
         numbered([e EXCEPT !.left = l.val, !.right = r.val], r.n)
    [] e.type = "Unary" ->
         LET r == number_expr(e.right, n) IN numbered([e EXCEPT !.right = r.val], r.n)
    [] e.type = "Grouping" ->
         LET g == number_expr(e.expr, n) IN numbered([e EXCEPT !.expr = g.val], g.n)
    [] e.type = "Call" ->
         LET c == number_expr(e.callee, n)
             a == number_exprs(e.arguments, <<>>, c.n) IN
         numbered([e EXCEPT !.callee = c.val, !.arguments = a.val], a.n)
    [] e.type = "Get" ->
         LET o == number_expr(e.object, n) IN numbered([e EXCEPT !.object = o.val], o.n)
    [] e.type = "Set" ->
         LET o == number_expr(e.object, n)
             v == number_expr(e.value, o.n) IN
         numbered([e EXCEPT !.object = o.val, !.value = v.val], v.n)

number_exprs(exprs, done, n) ==
  IF exprs = <<>> THEN [val |-> done, n |-> n]
  ELSE LET e == number_expr(Head(exprs), n) IN
       number_exprs(Tail(exprs), Append(done, e.val), e.n)

number_stmt(s, n) ==
  CASE s.type \in {"Block"} ->
         LET b == number_stmts(s.statements, <<>>, n) IN
         [val |-> [s EXCEPT !.statements = b.val], n |-> b.n]
    [] s.type = "Class" ->
         LET sc == number_exprs(s.superclass, <<>>, n)
             m == number_stmts(s.methods, <<>>, sc.n) IN
         [val |-> [s EXCEPT !.superclass = sc.val, !.methods = m.val], n |-> m.n]
    [] s.type = "Expression" ->
         LET e == number_expr(s.expr, n) IN [val |-> [s EXCEPT !.expr = e.val], n |-> e.n]
    [] s.type = "If" ->
         LET c == number_expr(s.condition, n)
             t == number_stmt(s.then_branch, c.n)
             e == number_stmts(s.else_branch, <<>>, t.n) IN
         [val |-> [s EXCEPT !.condition = c.val, !.then_branch = t.val,
                            !.else_branch = e.val], n |-> e.n]
    [] s.type = "Var" ->
         LET i == number_expr(s.initializer, n) IN
         [val |-> [s EXCEPT !.initializer = i.val], n |-> i.n]
    [] s.type = "While" ->
         LET c == number_expr(s.condition, n)
             b == number_stmt(s.body, c.n) IN
         [val |-> [s EXCEPT !.condition = c.val, !.body = b.val], n |-> b.n]
    [] s.type = "Function" ->
         LET b == number_stmts(s.body, <<>>, n) IN
         [val |-> [s EXCEPT !.body = b.val], n |-> b.n]
    [] s.type = "Return" ->
         LET v == number_expr(s.value, n) IN [val |-> [s EXCEPT !.value = v.val], n |-> v.n]

number_stmts(statements, done, n) ==
  IF statements = <<>> THEN [val |-> done, n |-> n]
  ELSE LET s == number_stmt(Head(statements), n) IN
       number_stmts(Tail(statements), Append(done, s.val), s.n)

Numbered(statements) == number_stmts(statements, <<>>, 0).val

\* bound: class A { set(v) { self.f = v; } }  var a = A();  [a.f = 0;]
\* then `writes` calls a.set(1); a.set(2); ... (with `stored`, calls m(1);
\* m(2); ... of var m = a.set;) and print(a.f);
BoundCalls(prog) ==
  [i \in 1..prog.writes |->
     StmtExpression(AstCall(IF prog.stored THEN AstVariable("m")
                            ELSE AstGet(AstVariable("a"), "set"),
                            <<AstNumber(i)>>))]

BoundAst(prog) ==
  << AstClass("A", <<>>,
       <<AstMethod("set", <<"v">>,
           <<StmtExpression(AstSet(AstSelf, "f", AstVariable("v")))>>)>>),
     AstVar("a", AstCall(AstVariable("A"), <<>>)) >>
  \o (IF prog.preset
      THEN <<StmtExpression(AstSet(AstVariable("a"), "f", AstNumber(0)))>> ELSE <<>>)
  \o (IF prog.stored THEN <<AstVar("m", AstGet(AstVariable("a"), "set"))>> ELSE <<>>)
  \o BoundCalls(prog)
  \o <<AstPrint(AstGet(AstVariable("a"), "f"))>>

BoundPrograms ==
  {[family |-> "bound", preset |-> p, stored |-> s, writes |-> w] :
     p \in BOOLEAN, s \in BOOLEAN, w \in 1..MaxWrites}

\* ctor: class P { new(v) { self.x = v; } get() { return self.x; } }
\*       var p = P(value); print(p.x); print(p.get()); print(p.get());
\* With `nested` these statements are the body of the method make of a
\* class Outer, and the program ends with Outer().make();
CtorBody(prog) ==
  << AstClass("P", <<>>,
       <<AstMethod("new", <<"v">>,
           <<StmtExpression(AstSet(AstSelf, "x", AstVariable("v")))>>),
         AstMethod("get", <<>>, <<AstReturn(AstGet(AstSelf, "x"))>>)>>),
     AstVar("p", AstCall(AstVariable("P"), <<AstNumber(prog.value)>>)),
     AstPrint(AstGet(AstVariable("p"), "x")),
     AstPrint(AstCall(AstGet(AstVariable("p"), "get"), <<>>)),
     AstPrint(AstCall(AstGet(AstVariable("p"), "get"), <<>>)) >>

CtorAst(prog) ==
  IF prog.nested
  THEN << AstClass("Outer", <<>>, <<AstMethod("make", <<>>, CtorBody(prog))>>),
          StmtExpression(AstCall(AstGet(AstCall(AstVariable("Outer"), <<>>), "make"), <<>>)) >>
  ELSE CtorBody(prog)

CtorPrograms ==
  {[family |-> "ctor", nested |-> n, value |-> v] : n \in BOOLEAN, v \in 1..MaxValue}

\* inherit: class A1 { m() { return 1; } }  class A2 < A1 {} ... up to
\* A<chain>, class B < A<chain> { [m() { return 2; }] }  print(B().m());
AncestorName(i) == <<"A1", "A2", "A3", "A4">>[i]

InheritAst(prog) ==
  [i \in 1..prog.chain |->
     AstClass(AncestorName(i),
              IF i = 1 THEN <<>> ELSE <<AstVariable(AncestorName(i - 1))>>,
              IF i = 1 THEN <<AstMethod("m", <<>>, <<AstReturn(AstNumber(1))>>)>> ELSE <<>>)]
  \o << AstClass("B", <<AstVariable(AncestorName(prog.chain))>>,
          IF prog.override
          THEN <<AstMethod("m", <<>>, <<AstReturn(AstNumber(2))>>)>> ELSE <<>>),
        AstPrint(AstCall(AstGet(AstCall(AstVariable("B"), <<>>), "m"), <<>>)) >>

InheritPrograms ==
  {[family |-> "inherit", override |-> o, chain |-> c] : o \in BOOLEAN, c \in 1..MaxChain}

\* arity: a callee of each kind is called with the arguments 1, ..., args.
\*   function     fun f(a, b) { print(a); print(b); }       f(...);
\*   class_ctor   class K { new(a, b) { print(a); print(b); } }   K(...);
\*   class_plain  class K { m(a) { print(a); } }            K(...);
\*   print        print(...);        clock        clock(...);
MaxArgs == 3

ArityBody == <<AstPrint(AstVariable("a")), AstPrint(AstVariable("b"))>>

ArityAst(prog) ==
  CASE prog.callee = "function" ->
         << AstMethod("f", <<"a", "b">>, ArityBody),
            StmtExpression(AstCall(AstVariable("f"), AstNumbers(prog.args))) >>
    [] prog.callee = "class_ctor" ->
         << AstClass("K", <<>>, <<AstMethod("new", <<"a", "b">>, ArityBody)>>),
            StmtExpression(AstCall(AstVariable("K"), AstNumbers(prog.args))) >>
    [] prog.callee = "class_plain" ->
         << AstClass("K", <<>>,
                     <<AstMethod("m", <<"a">>, <<AstPrint(AstVariable("a"))>>)>>),
            StmtExpression(AstCall(AstVariable("K"), AstNumbers(prog.args))) >>
    [] prog.callee \in {"print", "clock"} ->
         << StmtExpression(AstCall(AstVariable(prog.callee), AstNumbers(prog.args))) >>

ArityPrograms ==
  {[family |-> "arity", callee |-> c, args |-> n] :
     c \in {"function", "class_ctor", "class_plain", "print", "clock"}, n \in 0..MaxArgs}

\* logical: var g = 0; print(<left> <op> <right>); print(g);
\* The right operand is the literal 7, the assignment g = 7 or the failing
\* nil * 1; the left operand is a literal or the failing nil * 1.
AstFailing == AstBinary(AstNil, "*", AstNumber(1))

LeftOperand(name) ==
  CASE name = "true" -> AstBoolean(TRUE)
    [] name = "false" -> AstBoolean(FALSE)
    [] name = "nil" -> AstNil
    [] name = "zero" -> AstNumber(0)
    [] name = "string" -> AstString("s")
    [] name = "error" -> AstFailing

RightOperand(name) ==
  CASE name = "value" -> AstNumber(7)
    [] name = "effect" -> AstAssign("g", AstNumber(7))
    [] name = "error" -> AstFailing

LogicalAst(prog) ==
  << AstVar("g", AstNumber(0)),
     AstPrint(AstLogical(LeftOperand(prog.left), prog.op, RightOperand(prog.right))),
     AstPrint(AstVariable("g")) >>

LogicalPrograms ==
  {[family |-> "logical", op |-> o, left |-> l, right |-> r] :
     o \in {"or", "||", "and", "&&"},
     l \in {"true", "false", "nil", "zero", "string", "error"},
     r \in {"value", "effect", "error"}}

\* redeclare: a first declaration of x (var, fun or class) and a second one
\* (var, fun, class, or a parameter of fun g) that is put in the same block
\* (same), in a block of its own (outer), in a block of its own where a
\* third `var x` follows (outer_twice), or after the first at the top level
\* (global).  A parameter's scope is the scope of its function's body.
Declaration(kind, value) ==
  CASE kind = "var" -> <<AstVar("x", AstNumber(value))>>
    [] kind = "fun" -> <<AstMethod("x", <<>>, <<>>)>>
    [] kind = "class" -> <<AstClass("x", <<>>, <<>>)>>

RedeclareAst(prog) ==
  LET first == Declaration(prog.first, 0)
      third == AstVar("x", AstNumber(2))
      done == AstPrint(AstNumber(1)) IN
  IF prog.kind = "param" THEN
    CASE prog.where = "same" ->
           <<StmtBlock(first \o <<AstMethod("g", <<"y", "x", "x">>, <<>>)>>), done>>
      [] prog.where = "outer" ->
           <<StmtBlock(first \o <<AstMethod("g", <<"x", "y">>, <<>>)>>), done>>
      [] prog.where = "outer_twice" ->
           <<StmtBlock(first \o <<AstMethod("g", <<"x">>, <<third>>)>>), done>>
      [] prog.where = "global" ->
           first \o <<AstMethod("g", <<"x">>, <<>>), done>>
  ELSE
    CASE prog.where = "same" ->
           <<StmtBlock(first \o Declaration(prog.kind, 1)), done>>
      [] prog.where = "outer" ->
           <<StmtBlock(first \o <<StmtBlock(Declaration(prog.kind, 1))>>), done>>
      [] prog.where = "outer_twice" ->
           <<StmtBlock(first \o <<StmtBlock(Declaration(prog.kind, 1) \o <<third>>)>>), done>>
      [] prog.where = "global" ->
           first \o Declaration(prog.kind, 1) \o <<done>>

RedeclarePrograms ==
  {[family |-> "redeclare", first |-> f, kind |-> k, where |-> w] :
     f \in {"var", "fun", "class"}, k \in {"var", "fun", "class", "param"},
     w \in {"same", "outer", "outer_twice", "global"}}

\* returns: return statements after and inside nested function, method and
\* initializer declarations
ReturnNumber(n) == AstReturn(AstNumber(n))
NestedG == AstMethod("g", <<>>, <<ReturnNumber(1)>>)
CallG == AstCall(AstVariable("g"), <<>>)
NewK == AstCall(AstVariable("K"), <<>>)
CallM == AstCall(AstGet(NewK, "m"), <<>>)

ReturnsAsts ==
  [top_after_fun |->
     <<AstMethod("f", <<>>, <<ReturnNumber(1)>>), ReturnNumber(2)>>,
   top_after_class |->
     <<AstClass("K", <<>>, <<AstMethod("m", <<>>, <<ReturnNumber(1)>>)>>), ReturnNumber(2)>>,
   top_after_nested |->
     <<AstMethod("f", <<>>, <<NestedG>>), ReturnNumber(2)>>,
   init_value |->
     <<AstClass("K", <<>>, <<AstMethod("new", <<>>, <<ReturnNumber(1)>>)>>),
       StmtExpression(NewK)>>,
   init_after_nested |->
     <<AstClass("K", <<>>, <<AstMethod("new", <<>>, <<NestedG, ReturnNumber(2)>>)>>),
       StmtExpression(NewK)>>,
   init_after_method |->
     <<AstClass("K", <<>>, <<AstMethod("m", <<>>, <<ReturnNumber(1)>>),
                              AstMethod("new", <<>>, <<ReturnNumber(2)>>)>>),
       StmtExpression(NewK)>>,
   init_nested_only |->
     <<AstClass("K", <<>>, <<AstMethod("new", <<>>, <<NestedG, AstPrint(CallG)>>)>>),
       StmtExpression(NewK)>>,
   method_after_nested |->
     <<AstClass("K", <<>>, <<AstMethod("m", <<>>, <<NestedG, ReturnNumber(2)>>)>>),
       AstPrint(CallM)>>,
   method_after_init |->
     <<AstClass("K", <<>>, <<AstMethod("new", <<>>, <<>>),
                              AstMethod("m", <<>>, <<ReturnNumber(1)>>)>>),
       AstPrint(CallM)>>,
   fun_after_nested |->
     <<AstMethod("f", <<>>, <<NestedG, ReturnNumber(2)>>),
       AstPrint(AstCall(AstVariable("f"), <<>>))>>,
   fun_after_class |->
     <<AstMethod("f", <<>>,
         <<AstClass("K", <<>>, <<AstMethod("new", <<>>, <<>>)>>), ReturnNumber(2)>>),
       AstPrint(AstCall(AstVariable("f"), <<>>))>>]

ReturnsPrograms == {[family |-> "returns", name |-> n] : n \in DOMAIN ReturnsAsts}

\* binary: fun f() {} class K {} var k = K(); print(<left> <op> <right>);
\* with the operands 6, 2, "a", "b", nil, true, f and k
Operand(name) ==
  CASE name = "six" -> AstNumber(6)
    [] name = "two" -> AstNumber(2)
    [] name = "a" -> AstString("a")
    [] name = "b" -> AstString("b")
    [] name = "nil" -> AstNil
    [] name = "true" -> AstBoolean(TRUE)
    [] name = "f" -> AstVariable("f")
    [] name = "k" -> AstVariable("k")
    [] name = "K" -> AstVariable("K")
    [] name = "print" -> AstVariable("print")
    [] name = "false" -> AstBoolean(FALSE)

OperandNames == {"six", "two", "a", "b", "nil", "true", "f", "k"}

OperandPrelude ==
  << AstMethod("f", <<>>, <<>>),
     AstClass("K", <<>>, <<>>),
     AstVar("k", AstCall(AstVariable("K"), <<>>)) >>

BinaryAst(prog) ==
  OperandPrelude
    \o <<AstPrint(AstBinary(Operand(prog.left), prog.op, Operand(prog.right)))>>

BinaryPrograms ==
  {[family |-> "binary", op |-> o, left |-> l, right |-> r] :
     o \in {"-", "*", "/", "%", "+"}, l \in OperandNames, r \in OperandNames}

\* equality: the same prelude, then print(<left> <op> <right>); with == and
\* != and, as further operands, false, the class K and the native print
EqualityNames == OperandNames \cup {"K", "print", "false"}

EqualityPrograms ==
  {[family |-> "equality", op |-> o, left |-> l, right |-> r] :
     o \in {"==", "!="}, l \in EqualityNames, r \in EqualityNames}

\* initializer: class P { new() { [print(v);] <body> } } followed by
\* print(P()); (class_call) or by var p = P(); print(p.new()); (direct).
\* The body returns v, returns nil, returns v from inside an if, or has no
\* return.  The resolver refuses a return in an initializer, so these
\* vectors are given to Interpreter::interpret as they are; they name
\* globals only.
InitializerBody(prog) ==
  (IF prog.shout THEN <<AstPrint(AstNumber(prog.v))>> ELSE <<>>)
    \o CASE prog.kind = "return_value" -> <<ReturnNumber(prog.v)>>
          [] prog.kind = "return_nil" -> <<AstReturn(AstNil)>>
          [] prog.kind = "return_in_if" ->
               <<StmtIf(AstBoolean(TRUE), StmtBlock(<<ReturnNumber(prog.v)>>), <<>>)>>
          [] prog.kind = "no_return" -> <<>>

InitializerAst(prog) ==
  <<AstClass("P", <<>>, <<AstMethod("new", <<>>, InitializerBody(prog))>>)>>
    \o IF prog.via = "class_call"
       THEN <<AstPrint(AstCall(AstVariable("P"), <<>>))>>
       ELSE <<AstVar("p", AstCall(AstVariable("P"), <<>>)),
              AstPrint(AstCall(AstGet(AstVariable("p"), "new"), <<>>))>>

InitializerPrograms ==
  {[family |-> "initializer", kind |-> k, via |-> c, shout |-> s, v |-> v] :
     k \in {"return_value", "return_nil", "return_in_if", "no_return"},
     c \in {"class_call", "direct"}, s \in BOOLEAN, v \in 1..MaxValue}

\* instantiate: two instances p and q of a class P
\*   none       class P {}  var p = P(); var q = P(); p.x = 9;
\*   own        class P { new(v) { self.x = v; } }
\*              var p = P(value); var q = P(value + 1); print(p.x); print(q.x);
\*   inherited  as own, with the constructor in class A and class P < A {}
\*   failing    class P { new() { nil * 1; } }  var p = P(); print(1);
SetsX == AstMethod("new", <<"v">>, <<StmtExpression(AstSet(AstSelf, "x", AstVariable("v")))>>)

TwoInstances(prog) ==
  << AstVar("p", AstCall(AstVariable("P"), <<AstNumber(prog.value)>>)),
     AstVar("q", AstCall(AstVariable("P"), <<AstNumber(prog.value + 1)>>)),
     AstPrint(AstGet(AstVariable("p"), "x")),
     AstPrint(AstGet(AstVariable("q"), "x")) >>

InstantiateAst(prog) ==
  CASE prog.ctor = "none" ->
         << AstClass("P", <<>>, <<>>),
            AstVar("p", AstCall(AstVariable("P"), <<>>)),
            AstVar("q", AstCall(AstVariable("P"), <<>>)),
            StmtExpression(AstSet(AstVariable("p"), "x", AstNumber(9))) >>
    [] prog.ctor = "own" ->
         <<AstClass("P", <<>>, <<SetsX>>)>> \o TwoInstances(prog)
    [] prog.ctor = "inherited" ->
         << AstClass("A", <<>>, <<SetsX>>),
            AstClass("P", <<AstVariable("A")>>, <<>>) >> \o TwoInstances(prog)
    [] prog.ctor = "failing" ->
         << AstClass("P", <<>>, <<AstMethod("new", <<>>, <<StmtExpression(AstFailing)>>)>>),
            AstVar("p", AstCall(AstVariable("P"), <<>>)),
            AstPrint(AstNumber(1)) >>

InstantiatePrograms ==
  {[family |-> "instantiate", ctor |-> c, value |-> v] :
     c \in {"none", "own", "inherited", "failing"}, v \in 1..MaxValue}

\* assign: [var g = 1;] { fun f() { print(g = 10 + value); } [var g = 7;]
\*         f(); [print(g);] } print(g);
\* The block declares its g after f, so the assignment in f has no hop
\* although the frame f closes over holds a g when f is called.
AssignAst(prog) ==
  (IF prog.defined THEN <<AstVar("g", AstNumber(1))>> ELSE <<>>)
    \o << StmtBlock(
            <<AstMethod("f", <<>>,
                <<AstPrint(AstAssign("g", AstNumber(10 + prog.value)))>>)>>
            \o (IF prog.local THEN <<AstVar("g", AstNumber(7))>> ELSE <<>>)
            \o <<StmtExpression(AstCall(AstVariable("f"), <<>>))>>
            \o (IF prog.local THEN <<AstPrint(AstVariable("g"))>> ELSE <<>>)),
          AstPrint(AstVariable("g")) >>

AssignPrograms ==
  {[family |-> "assign", defined |-> d, local |-> l, value |-> v] :
     d \in BOOLEAN, l \in BOOLEAN, v \in 1..MaxValue}

\* ownread: a local `var a` whose initializer reads a, and reads of a after
\* its declaration, in a block or in the body of a function f that is called
OwnReadBodies ==
  [self_read |-> <<AstVar("a", AstVariable("a"))>>,
   self_read_in_sum |->
     <<AstVar("a", AstBinary(AstNumber(1), "+", AstVariable("a")))>>,
   self_read_in_call |->
     <<AstVar("a", AstCall(AstVariable("clock"), <<AstVariable("a")>>))>>,
   shadowing_read |->
     <<AstVar("a", AstNumber(1)), StmtBlock(<<AstVar("a", AstVariable("a"))>>)>>,
   second_self_read |->
     <<AstVar("a", AstNumber(1)), AstVar("b", AstVariable("b"))>>,
   read_after |-> <<AstVar("a", AstNumber(1)), AstPrint(AstVariable("a"))>>,
   read_in_next_initializer |->
     <<AstVar("a", AstNumber(1)), AstVar("b", AstVariable("a")), AstPrint(AstVariable("b"))>>,
   read_other_in_initializer |->
     <<AstVar("b", AstNumber(1)), AstVar("a", AstVariable("b")), AstPrint(AstVariable("a"))>>]

OwnReadAst(prog) ==
  IF prog.where = "block" THEN <<StmtBlock(OwnReadBodies[prog.name])>>
  ELSE << AstMethod("f", <<>>, OwnReadBodies[prog.name]),
          StmtExpression(AstCall(AstVariable("f"), <<>>)) >>

OwnReadPrograms ==
  {[family |-> "ownread", name |-> n, where |-> w] :
     n \in DOMAIN OwnReadBodies, w \in {"block", "function"}}

\* initreturn: class P { <method>(v) { <body> } }  P(1);  where <method> is
\* `new` or `init` and <body> is
\*   bare             return;
\*   number           return 1;
\*   param            return v;
\*   self             return self;
\*   in_if            if (v) return;
\*   in_while         while (v) return;
\*   in_block         { return; }
\*   after_statement  print(v); return;
\*   nested_function  fun g() { return v; }
\*   none             print(v);
BareReturn == AstReturn(AstNil)

InitReturnBodies ==
  [bare |-> <<BareReturn>>,
   number |-> <<ReturnNumber(1)>>,
   param |-> <<AstReturn(AstVariable("v"))>>,
   self |-> <<AstReturn(AstSelf)>>,
   in_if |-> <<StmtIf(AstVariable("v"), BareReturn, <<>>)>>,
   in_while |-> <<StmtWhile(AstVariable("v"), BareReturn)>>,
   in_block |-> <<StmtBlock(<<BareReturn>>)>>,
   after_statement |-> <<AstPrint(AstVariable("v")), BareReturn>>,
   nested_function |-> <<AstMethod("g", <<>>, <<AstReturn(AstVariable("v"))>>)>>,
   none |-> <<AstPrint(AstVariable("v"))>>]

InitReturnAst(prog) ==
  <<AstClass("P", <<>>, <<AstMethod(prog.method, <<"v">>, InitReturnBodies[prog.body])>>),
    StmtExpression(AstCall(AstVariable("P"), IF prog.method = "new" THEN <<AstNumber(1)>> ELSE <<>>))>>

InitReturnPrograms ==
  {[family |-> "initreturn", method |-> m, body |-> b] :
     m \in {"new", "init"}, b \in DOMAIN InitReturnBodies}

\* callorder: a call whose callee and arguments leave a trace on stdout
\*   fun f(a, b) { print(9); }
\*   fun t(n) { print(n); return n; }
\*   fun c(n) { print(n); return f; }      (`return 7;` for not_callable)
\*   c(0)(t(1), t(2), ...);                (`nil * 1` as the callee for failing)
\* with `args` arguments, of which argument `fails` (0: none) is t(i) * nil.
Traced(i) == AstCall(AstVariable("t"), <<AstNumber(i)>>)
FailingAfter(i) == AstBinary(Traced(i), "*", AstNil)

CallOrderAst(prog) ==
  << AstMethod("f", <<"a", "b">>, <<AstPrint(AstNumber(9))>>),
     AstMethod("t", <<"n">>, <<AstPrint(AstVariable("n")), AstReturn(AstVariable("n"))>>),
     AstMethod("c", <<"n">>,
       <<AstPrint(AstVariable("n")),
         AstReturn(IF prog.callee = "function" THEN AstVariable("f") ELSE AstNumber(7))>>),
     StmtExpression(
       AstCall(IF prog.callee = "failing" THEN AstFailing
               ELSE AstCall(AstVariable("c"), <<AstNumber(0)>>),
               [i \in 1..prog.args |->
                  IF i = prog.fails THEN FailingAfter(i) ELSE Traced(i)])) >>

CallOrderPrograms ==
  {program \in {[family |-> "callorder", callee |-> c, args |-> n, fails |-> k] :
                  c \in {"function", "not_callable", "failing"},
                  n \in 1..MaxArgs, k \in 0..MaxArgs} :
     program.fails <= program.args}

\* toplevel: declarations and references at the top level of the program
\*   twice             var a = 1; var a = 2; print(a);
\*   twice_function    fun a() { return 1; } var a = 2; print(a);
\*   own_initializer   var a = 1; var a = a + 1; print(a);
\*   own_undefined     var a = a; print(1);
\*   reference         var a = 1; print(a); a = 2; print(a);
\*   function_reads    var a = 1; fun f() { return a; } print(f());
TopLevelAsts ==
  [twice |->
     <<AstVar("a", AstNumber(1)), AstVar("a", AstNumber(2)), AstPrint(AstVariable("a"))>>,
   twice_function |->
     <<AstMethod("a", <<>>, <<ReturnNumber(1)>>), AstVar("a", AstNumber(2)),
       AstPrint(AstVariable("a"))>>,
   own_initializer |->
     <<AstVar("a", AstNumber(1)), AstVar("a", AstSum(AstVariable("a"), AstNumber(1))),
       AstPrint(AstVariable("a"))>>,
   own_undefined |->
     <<AstVar("a", AstVariable("a")), AstPrint(AstNumber(1))>>,
   reference |->
     <<AstVar("a", AstNumber(1)), AstPrint(AstVariable("a")),
       StmtExpression(AstAssign("a", AstNumber(2))), AstPrint(AstVariable("a"))>>,
   function_reads |->
     <<AstVar("a", AstNumber(1)), AstMethod("f", <<>>, <<AstReturn(AstVariable("a"))>>),
       AstPrint(AstCall(AstVariable("f"), <<>>))>>]

TopLevelPrograms == {[family |-> "toplevel", name |-> n] : n \in DOMAIN TopLevelAsts}

\* hops: programs whose reads and assignments cross several scopes
\*   deep_blocks     { var a = 1; { var b = 2; { print(a + b); a = 3; } print(a); } }
\*   closure_escape  var c; { var a = 1; fun f() { a = a + 1; return a; } c = f; }
\*                   print(c()); print(c());
\*   recursion       { fun down(n) { if (n < 1) return 0; return down(n - 1); }
\*                     print(down(2)); }
\*   method_function class K { m() { fun g() { return self; } return g(); } }
\*                   print(K().m());
\*   nested_class    class A { m() { class B { n() { return self; } } return B().n(); } }
\*                   print(A().m());
\*   method_block    { var a = 1; class K { m(p) { { print(a + p); } } } K().m(2); }
\*   loop_closure    { var i = 0; while (i < 2) { var j = i; fun h() { return j; }
\*                     print(h()); i = i + 1; } }
\*   shadow_param    fun f(a) { { var a = 5; print(a); } print(a); } f(1);
HopsAsts ==
  [deep_blocks |->
     <<StmtBlock(
         <<AstVar("a", AstNumber(1)),
           StmtBlock(
             <<AstVar("b", AstNumber(2)),
               StmtBlock(<<AstPrint(AstSum(AstVariable("a"), AstVariable("b"))),
                           StmtExpression(AstAssign("a", AstNumber(3)))>>),
               AstPrint(AstVariable("a"))>>)>>)>>,
   closure_escape |->
     <<AstVar("c", AstNil),
       StmtBlock(
         <<AstVar("a", AstNumber(1)),
           AstMethod("f", <<>>,
             <<StmtExpression(AstAssign("a", AstSum(AstVariable("a"), AstNumber(1)))),
               AstReturn(AstVariable("a"))>>),
           StmtExpression(AstAssign("c", AstVariable("f")))>>),
       AstPrint(AstCall(AstVariable("c"), <<>>)),
       AstPrint(AstCall(AstVariable("c"), <<>>))>>,
   recursion |->
     <<StmtBlock(
         <<AstMethod("down", <<"n">>,
             <<StmtIf(AstBinary(AstVariable("n"), "<", AstNumber(1)),
                      AstReturn(AstNumber(0)), <<>>),
               AstReturn(AstCall(AstVariable("down"),
                                 <<AstBinary(AstVariable("n"), "-", AstNumber(1))>>))>>),
           AstPrint(AstCall(AstVariable("down"), <<AstNumber(2)>>))>>)>>,
   method_function |->
     <<AstClass("K", <<>>,
         <<AstMethod("m", <<>>,
             <<AstMethod("g", <<>>, <<AstReturn(AstSelf)>>), AstReturn(CallG)>>)>>),
       AstPrint(CallM)>>,
   nested_class |->
     <<AstClass("A", <<>>,
         <<AstMethod("m", <<>>,
             <<AstClass("B", <<>>, <<AstMethod("n", <<>>, <<AstReturn(AstSelf)>>)>>),
               AstReturn(AstCall(AstGet(AstCall(AstVariable("B"), <<>>), "n"), <<>>))>>)>>),
       AstPrint(AstCall(AstGet(AstCall(AstVariable("A"), <<>>), "m"), <<>>))>>,
   method_block |->
     <<StmtBlock(
         <<AstVar("a", AstNumber(1)),
           AstClass("K", <<>>,
             <<AstMethod("m", <<"p">>,
                 <<StmtBlock(<<AstPrint(AstSum(AstVariable("a"), AstVariable("p")))>>)>>)>>),
           StmtExpression(AstCall(AstGet(NewK, "m"), <<AstNumber(2)>>))>>)>>,
   loop_closure |->
     <<StmtBlock(
         <<AstVar("i", AstNumber(0)),
           StmtWhile(AstBinary(AstVariable("i"), "<", AstNumber(2)),
             StmtBlock(
               <<AstVar("j", AstVariable("i")),
                 AstMethod("h", <<>>, <<AstReturn(AstVariable("j"))>>),
                 AstPrint(AstCall(AstVariable("h"), <<>>)),
                 StmtExpression(AstAssign("i", AstSum(AstVariable("i"), AstNumber(1))))>>))>>)>>,
   shadow_param |->
     <<AstMethod("f", <<"a">>,
         <<StmtBlock(<<AstVar("a", AstNumber(5)), AstPrint(AstVariable("a"))>>),
           AstPrint(AstVariable("a"))>>),
       StmtExpression(AstCall(AstVariable("f"), <<AstNumber(1)>>))>>]

HopsPrograms == {[family |-> "hops", name |-> n] : n \in DOMAIN HopsAsts}

Ast(prog) ==
  Numbered(CASE prog.family = "bound" -> BoundAst(prog)
             [] prog.family = "ctor" -> CtorAst(prog)
             [] prog.family = "inherit" -> InheritAst(prog)
             [] prog.family = "arity" -> ArityAst(prog)
             [] prog.family = "logical" -> LogicalAst(prog)
             [] prog.family = "redeclare" -> RedeclareAst(prog)
             [] prog.family = "returns" -> ReturnsAsts[prog.name]
             [] prog.family \in {"binary", "equality"} -> BinaryAst(prog)
             [] prog.family = "initializer" -> InitializerAst(prog)
             [] prog.family = "instantiate" -> InstantiateAst(prog)
             [] prog.family = "assign" -> AssignAst(prog)
             [] prog.family = "ownread" -> OwnReadAst(prog)
             [] prog.family = "hops" -> HopsAsts[prog.name]
             [] prog.family = "initreturn" -> InitReturnAst(prog)
             [] prog.family = "toplevel" -> TopLevelAsts[prog.name]
             [] prog.family = "callorder" -> CallOrderAst(prog))

AstPrograms == BoundPrograms \cup CtorPrograms \cup InheritPrograms \cup ArityPrograms
    \cup LogicalPrograms \cup RedeclarePrograms
    \cup ReturnsPrograms \cup BinaryPrograms
    \cup EqualityPrograms \cup InstantiatePrograms
    \cup AssignPrograms \cup OwnReadPrograms
    \cup HopsPrograms
    \cup InitReturnPrograms
    \cup TopLevelPrograms
    \cup CallOrderPrograms


(***************************************************************************)
(* The pipeline: lib.rs run().                                             *)
(*   prog        the program run() is called on                            *)
(*   pc          where run() is: "scan", "parse" (in Parser::parse),       *)
(*               "resolve" (in Resolver::resolve_statements), "interpret"  *)
(*               (in Interpreter::interpret), "done" (run has returned) or *)
(*               "panicked"                                                *)
(*   parser      the Parser                                                *)
(*   statements, had_error   the locals of Parser::parse                   *)
(*   stmts       what Parser::parse returned: [ok, val]                    *)
(*   resolver    the Resolver (scopes, current_function, current_class)    *)
(*   interpreter the Interpreter                                           *)
(*   next        the index of the next statement of the running loop       *)
(*   result      what the stage that ended the run returned:               *)
(*               "None" (no stage has), "Ok", "ParseError",                *)
(*               "ResolveError", or the Exit that                          *)
(*               Interpreter::interpret returned                           *)
(***************************************************************************)
VARIABLES prog, pc, parser, statements, had_error, stmts, resolver, interpreter,
          next, result

vars == <<prog, pc, parser, statements, had_error, stmts, resolver, interpreter,
          next, result>>

\* a local of run() that does not exist yet
None == [none |-> TRUE]

Init ==
  /\ prog \in Programs
  /\ pc = "scan"
  /\ parser = None
  /\ statements = <<>>
  /\ had_error = FALSE
  /\ stmts = None
  /\ resolver = None
  /\ interpreter = None
  /\ next = 0
  /\ result = "None"

\* run(): `Scanner::new(content).scan_tokens()` and `Parser::new(tokens)`
Scan ==
  /\ pc = "scan"
  /\ parser' = Parser_new(scan_tokens(Source(prog)), 0)
  /\ pc' = "parse"
  /\ UNCHANGED <<prog, statements, had_error, stmts, resolver, interpreter, next, result>>

\* Parser::parse: one turn of `while !self.is_at_end()`
\* the match on what declaration() returned
parse_push(d) ==
  /\ parser' = d.p
  /\ statements' = IF d.ok THEN Append(statements, d.val) ELSE statements
  /\ had_error' = IF d.ok THEN had_error ELSE TRUE

ParseDeclaration ==
  /\ pc = "parse"
  /\ ~is_at_end(parser)
  /\ parse_push(declaration(parser))
  /\ UNCHANGED <<prog, pc, stmts, resolver, interpreter, next, result>>

\* Parser::parse handing out the statements it recovered although a
\* declaration failed
parse_result_partial(stmt_vec, error_flag) == [ok |-> TRUE, val |-> stmt_vec]

\* what Parser::parse returns when its loop has ended
parse_result(stmt_vec, error_flag) ==
  IF error_flag THEN [ok |-> FALSE, val |-> <<>>] ELSE [ok |-> TRUE, val |-> stmt_vec]

\* run() going on to the resolver whatever Parser::parse returned
run_after_parse_always(parsed) == "resolve"

\* what run() does with the result of Parser::parse: on Ok it makes the
\* interpreter and the resolver, otherwise it prints and returns
run_after_parse(parsed) == IF parsed.ok THEN "resolve" ELSE "done"

ParseReturn ==
  /\ pc = "parse"
  /\ is_at_end(parser)
  /\ stmts' = parse_result(statements, had_error)
  /\ pc' = run_after_parse(stmts')
  /\ IF pc' = "resolve"
     THEN /\ interpreter' = Interpreter_new
          /\ resolver' = [scopes |-> <<>>, current_function |-> "None",
                          current_class |-> "None"]
          /\ next' = 1
          /\ result' = result
     ELSE /\ result' = "ParseError"
          /\ UNCHANGED <<interpreter, resolver, next>>
  /\ UNCHANGED <<prog, parser, statements, had_error>>

\* the Resolver, which holds the interpreter by &mut
TheResolver == [interpreter |-> interpreter] @@ resolver
ResolverFields(r) ==
  [scopes |-> r.scopes, current_function |-> r.current_function,
   current_class |-> r.current_class]

\* Resolver::resolve_statements: one turn of `for stmt in statements`, whose
\* `?` ends the loop and, in run(), the run
\* the `?` on what resolve_stmt() returned
resolve_step(s) ==
  /\ resolver' = ResolverFields(s.r)
  /\ interpreter' = s.r.interpreter
  /\ IF s.ok
     THEN /\ next' = next + 1
          /\ UNCHANGED <<pc, result>>
     ELSE /\ pc' = "done"
          /\ result' = "ResolveError"
          /\ next' = next

ResolveStatement ==
  /\ pc = "resolve"
  /\ next <= Len(stmts.val)
  /\ resolve_step(resolve_stmt(TheResolver, stmts.val[next]))
  /\ UNCHANGED <<prog, parser, statements, had_error, stmts>>

\* what run() does when resolve_statements has returned Ok
run_after_resolve(ok) == IF ok THEN "interpret" ELSE "done"

ResolveReturn ==
  /\ pc = "resolve"
  /\ next > Len(stmts.val)
  /\ pc' = run_after_resolve(TRUE)
  /\ next' = 1
  /\ UNCHANGED <<prog, parser, statements, had_error, stmts, resolver, interpreter, result>>

\* Interpreter::interpret: one turn of `for stmt in statements`, whose `?`
\* returns the Exit
\* the `?` on what execute() returned
interpret_step(e) ==
  /\ interpreter' = e.it
  /\ IF e.res = "Ok"
     THEN /\ next' = next + 1
          /\ UNCHANGED <<pc, result>>
     ELSE /\ pc' = IF e.res = "Panic" THEN "panicked" ELSE "done"
          /\ result' = e.res
          /\ next' = next

Execute ==
  /\ pc = "interpret"
  /\ next <= Len(stmts.val)
  /\ interpret_step(execute(interpreter, stmts.val[next]))
  /\ UNCHANGED <<prog, parser, statements, had_error, stmts, resolver>>

InterpretReturn ==
  /\ pc = "interpret"
  /\ next > Len(stmts.val)
  /\ pc' = "done"
  /\ result' = "Ok"
  /\ UNCHANGED <<prog, parser, statements, had_error, stmts, resolver, interpreter, next>>

Next ==
  \/ Scan
  \/ ParseDeclaration
  \/ ParseReturn
  \/ ResolveStatement
  \/ ResolveReturn
  \/ Execute
  \/ InterpretReturn

Spec == Init /\ [][Next]_vars

\* Parser::parse alone, on every token sequence of TokenPrograms and on the
\* programs of the pipeline: run() is given one of them (ReadSource), scans
\* it and parses it.  The loop of parse() runs to its end without waiting
\* for anything, hence the weak fairness of its turns.  A turn of the loop is
\* enabled exactly when its guard holds (declaration() returns on every
\* parser), and its fairness is written with that guard.
InitParse ==
  /\ prog = [family |-> "none"]
  /\ pc = "start"
  /\ parser = None
  /\ statements = <<>>
  /\ had_error = FALSE
  /\ stmts = None
  /\ resolver = None
  /\ interpreter = None
  /\ next = 0
  /\ result = "None"

ReadSource ==
  /\ pc = "start"
  /\ prog' \in TokenPrograms \cup Programs
  /\ pc' = "scan"
  /\ UNCHANGED <<parser, statements, had_error, stmts, resolver, interpreter, next, result>>

NextParse ==
  \/ ReadSource
  \/ Scan
  \/ ParseDeclaration
  \/ ParseReturn

ParseTurnEnabled == pc = "parse" /\ ~is_at_end(parser)

FairParse ==
  /\ WF_vars(ReadSource)
  /\ WF_vars(Scan)
  /\ WF_vars(ParseReturn)
  /\ (<>[]ParseTurnEnabled) => []<><<ParseDeclaration>>_vars

SpecParse == InitParse /\ [][NextParse]_vars /\ FairParse

\* The resolver and the interpreter on a statement vector: what run() does
\* after Parser::parse has returned Ok(statements).
InitAst ==
  /\ prog \in AstPrograms
  /\ pc = "resolve"
  /\ parser = None
  /\ statements = Ast(prog)
  /\ had_error = FALSE
  /\ stmts = parse_result(statements, had_error)
  /\ resolver = [scopes |-> <<>>, current_function |-> "None", current_class |-> "None"]
  /\ interpreter = Interpreter_new
  /\ next = 1
  /\ result = "None"

NextAst ==
  \/ ResolveStatement
  \/ ResolveReturn
  \/ Execute
  \/ InterpretReturn

SpecAst == InitAst /\ [][NextAst]_vars

\* Interpreter::interpret on a statement vector that no Resolver has seen:
\* the side table `locals` is empty and every name is looked up in globals.
InitInterpret ==
  /\ prog \in InitializerPrograms
  /\ pc = "interpret"
  /\ parser = None
  /\ statements = Ast(prog)
  /\ had_error = FALSE
  /\ stmts = parse_result(statements, had_error)
  /\ resolver = None
  /\ interpreter = Interpreter_new
  /\ next = 1
  /\ result = "None"

NextInterpret ==
  \/ Execute
  \/ InterpretReturn

SpecInterpret == InitInterpret /\ [][NextInterpret]_vars

\* The Resolver driven one call at a time: the scope stack is built by
\* begin_scope, end_scope, declare and define in every order the visits can
\* call them, and resolve_local is called on a fresh reference node.
\* `statements` collects the reference nodes, `next` is the uuid of the next
\* one, and pc is "resolved" right after a resolve_local call.
MaxScopes == 3
MaxRefs == 2
Names == {"a", "b"}

InitResolver ==
  /\ prog = [family |-> "scopes"]
  /\ pc = "resolver"
  /\ parser = None
  /\ statements = <<>>
  /\ had_error = FALSE
  /\ stmts = None
  /\ resolver = [scopes |-> <<>>, current_function |-> "None", current_class |-> "None"]
  /\ interpreter = Interpreter_new
  /\ next = 1
  /\ result = "None"

BeginScope ==
  /\ pc \in {"resolver", "resolved"}
  /\ Len(resolver.scopes) < MaxScopes
  /\ resolver' = ResolverFields(begin_scope(TheResolver))
  /\ pc' = "resolver"
  /\ UNCHANGED <<prog, parser, statements, had_error, stmts, interpreter, next, result>>

EndScope ==
  /\ pc \in {"resolver", "resolved"}
  /\ resolver.scopes # <<>>
  /\ resolver' = ResolverFields(end_scope(TheResolver))
  /\ pc' = "resolver"
  /\ UNCHANGED <<prog, parser, statements, had_error, stmts, interpreter, next, result>>

\* the `?` on declare: an Err ends the resolution
declare_step(d) ==
  /\ resolver' = ResolverFields(d.r)
  /\ interpreter' = d.r.interpreter
  /\ pc' = IF d.ok THEN "resolver" ELSE "done"
  /\ result' = IF d.ok THEN result ELSE "ResolveError"

Declare ==
  /\ pc \in {"resolver", "resolved"}
  /\ \E name \in Names : declare_step(declare(TheResolver, Identifier(name)))
  /\ UNCHANGED <<prog, parser, statements, had_error, stmts, next>>

Define ==
  /\ pc \in {"resolver", "resolved"}
  /\ \E name \in Names : resolver' = ResolverFields(define(TheResolver, Identifier(name)))
  /\ pc' = "resolver"
  /\ UNCHANGED <<prog, parser, statements, had_error, stmts, interpreter, next, result>>

ResolveLocal ==
  /\ pc \in {"resolver", "resolved"}
  /\ next <= MaxRefs
  /\ \E name \in Names :
       /\ interpreter' = resolve_local(TheResolver, next, Identifier(name)).interpreter
       /\ statements' = Append(statements,
                               StmtExpression(ExprVariable(Identifier(name), next)))
  /\ next' = next + 1
  /\ pc' = "resolved"
  /\ UNCHANGED <<prog, parser, had_error, stmts, resolver, result>>

NextResolver ==
  \/ BeginScope
  \/ EndScope
  \/ Declare
  \/ Define
  \/ ResolveLocal

SpecResolver == InitResolver /\ [][NextResolver]_vars

\* The Environment driven one call at a time on the current frame of a chain
\* of at most MaxFrames frames: new_with_enclosing and define build the
\* chain as execute_block and the declarations do, and get, assign, get_at
\* and assign_at are called with every name, value and distance up to one
\* more than the chain has links.  After a call `stmts` holds the call, its
\* value and the frames it was made on; a call that returns
\* Exit::RuntimeError ends the run, one that panics ends the thread.
MaxFrames == 3
FrameValues == {1, 2}

InitEnvironment ==
  /\ prog = [family |-> "frames"]
  /\ pc = "environment"
  /\ parser = None
  /\ statements = <<>>
  /\ had_error = FALSE
  /\ stmts = None
  /\ resolver = None
  /\ interpreter = Interpreter_new
  /\ next = 0
  /\ result = "None"

EnvironmentNew ==
  /\ pc \in {"environment", "called"}
  /\ Len(interpreter.envs) < MaxFrames
  /\ interpreter' =
       [interpreter EXCEPT
          !.envs = Append(@, Environment_new_with_enclosing(interpreter.environment)),
          !.environment = Len(interpreter.envs) + 1]
  /\ pc' = "environment"
  /\ stmts' = None
  /\ result' = "None"
  /\ UNCHANGED <<prog, parser, statements, had_error, resolver, next>>

EnvironmentDefine ==
  /\ pc \in {"environment", "called"}
  /\ \E name \in Names, value \in FrameValues :
       interpreter' = Environment_define(interpreter, interpreter.environment,
                                         name, Number(value))
  /\ pc' = "environment"
  /\ stmts' = None
  /\ result' = "None"
  /\ UNCHANGED <<prog, parser, statements, had_error, resolver, next>>

\* what the caller does with the Result of a call
environment_step(made, r) ==
  /\ interpreter' = r.it
  /\ stmts' = [call |-> made, val |-> r.val, envs |-> interpreter.envs,
               environment |-> interpreter.environment]
  /\ result' = r.res
  /\ pc' = CASE r.res = "Ok" -> "called"
              [] r.res = "Panic" -> "panicked"
              [] OTHER -> "done"
  /\ UNCHANGED <<prog, parser, statements, had_error, resolver, next>>

EnvironmentGet ==
  /\ pc \in {"environment", "called"}
  /\ \E name \in Names :
       environment_step([op |-> "get", name |-> name, distance |-> 0, value |-> Nil],
                        Environment_get(interpreter, interpreter.environment,
                                        Identifier(name)))

EnvironmentAssign ==
  /\ pc \in {"environment", "called"}
  /\ \E name \in Names, value \in FrameValues :
       environment_step([op |-> "assign", name |-> name, distance |-> 0,
                         value |-> Number(value)],
                        Environment_assign(interpreter, interpreter.environment,
                                           Identifier(name), Number(value)))

EnvironmentGetAt ==
  /\ pc \in {"environment", "called"}
  /\ \E name \in Names, distance \in 0..Len(interpreter.envs) :
       environment_step([op |-> "get_at", name |-> name, distance |-> distance,
                         value |-> Nil],
                        Environment_get_at(interpreter, interpreter.environment,
                                           distance, Identifier(name)))

EnvironmentAssignAt ==
  /\ pc \in {"environment", "called"}
  /\ \E name \in Names, distance \in 0..Len(interpreter.envs), value \in FrameValues :
       environment_step([op |-> "assign_at", name |-> name, distance |-> distance,
                         value |-> Number(value)],
                        Environment_assign_at(interpreter, interpreter.environment,
                                              distance, Identifier(name), Number(value)))

NextEnvironment ==
  \/ EnvironmentNew
  \/ EnvironmentDefine
  \/ EnvironmentGet
  \/ EnvironmentAssign
  \/ EnvironmentGetAt
  \/ EnvironmentAssignAt

SpecEnvironment == InitEnvironment /\ [][NextEnvironment]_vars

(***************************************************************************)
(* Properties of the pipeline (Spec).                                      *)
(***************************************************************************)
Numbers(ns) == [i \in DOMAIN ns |-> Number(ns[i])]

\* what a shadow program prints when every use of x after an inner
\* declaration means the inner binding: the innermost x (9 when assigned),
\* then the x of each enclosing scope on the way out, ending with 0
ShadowExpected(program) ==
  [i \in 1..program.depth + 1 |->
     Number(IF i > 1 THEN program.depth + 1 - i
            ELSE IF program.use = "assign" THEN 9 ELSE program.depth)]

\* C1: a variable declared in a block shadows the same-named variable of
\* every enclosing scope, global, block or function: the read or assignment
\* after the inner declaration uses the inner binding, and the enclosing
\* binding still has its old value after the block.  Every shadow program
\* then runs to Ok and prints ShadowExpected.
C1_Shadowing ==
  (pc = "done" /\ prog.family = "shadow")
    => (result = "Ok" /\ interpreter.stdout = ShadowExpected(prog))

\* what a counter program prints when both counters own their frame:
\* 1, 2, ..., calls from c, then 1 from d
CounterExpected(program) ==
  [i \in 1..program.calls + 1 |-> Number(IF i <= program.calls THEN i ELSE 1)]

\* C5: a closure captures its defining frame by reference and every call of
\* the enclosing function makes an independent frame: the counter c returns
\* 1, 2, ... on successive calls and the second counter d starts at 1 again,
\* wherever makeCounter is declared.
C5_CounterClosure ==
  (pc = "done" /\ prog.family = "counter")
    => (result = "Ok" /\ interpreter.stdout = CounterExpected(prog))

\* no statement has been executed by this interpreter: nothing printed, no
\* block entered, no frame or instance made, no global defined
Unexecuted(it) ==
  /\ it.stdout = <<>>
  /\ it.blocks = <<>>
  /\ it.instances = <<>>
  /\ it.envs = Interpreter_new.envs
  /\ it.environment = it.globals

\* Resolver::resolve_statements on a new Resolver returns Ok
ResolverSucceeds(stmt_vec) ==
  resolve_statements([interpreter |-> Interpreter_new, scopes |-> <<>>,
                      current_function |-> "None", current_class |-> "None"],
                     stmt_vec).ok

PipelineStages ==
  /\ pc \in {"scan", "parse"}
       => (stmts = None /\ resolver = None /\ interpreter = None /\ result = "None")
  /\ pc \in {"resolve", "interpret"} => (stmts # None /\ stmts.ok /\ result = "None")
  /\ pc = "resolve" => Unexecuted(interpreter)
  /\ pc = "interpret" => ResolverSucceeds(stmts.val)
  /\ result = "ParseError" => (pc = "done" /\ ~stmts.ok /\ interpreter = None)
  /\ result = "ResolveError"
       => (pc = "done" /\ stmts.ok /\ ~ResolverSucceeds(stmts.val)
             /\ Unexecuted(interpreter))
  /\ result \in {"Ok", "RuntimeError"} => (stmts.ok /\ ResolverSucceeds(stmts.val))

PipelineStep ==
  pc' # pc => <<pc, pc'>> \in {<<"scan", "parse">>, <<"parse", "resolve">>,
                                <<"parse", "done">>, <<"resolve", "interpret">>,
                                <<"resolve", "done">>, <<"interpret", "done">>,
                                <<"interpret", "panicked">>}

\* C7: the stages of a run happen in the order parse, resolve, interpret;
\* the resolver starts only when the parser returned Ok, interpret is called
\* only when the parser and the resolver both returned Ok, and after a parse
\* failure or a resolution failure no statement has been executed.
C7_PipelineOrder == []PipelineStages /\ [][PipelineStep]_vars

\* a run whose resolver failed on its second statement after a first
\* statement that would have printed
C7_ResolveFailureReached ==
  /\ pc = "done"
  /\ result = "ResolveError"
  /\ next = 2
  /\ stmts.val[1].type = "Block"
  /\ interpreter.stdout = <<>>

\* C8: Parser::parse returns all top-level statements in source order
\* exactly when no declaration failed to parse, and on a failure it returns
\* the failure signal with none of the statements it recovered.
C8_ParseAllOrNothing ==
  stmts # None =>
    /\ stmts.ok <=> ~had_error
    /\ stmts.ok => stmts.val = statements
    /\ ~stmts.ok => stmts.val = <<>>
    /\ prog.family = "decls" =>
         /\ stmts.ok <=> \A i \in DOMAIN prog.chunks : ChunkParses[prog.chunks[i]]
         /\ stmts.ok =>
              /\ Len(stmts.val) = Len(prog.chunks)
              /\ \A i \in DOMAIN prog.chunks : stmts.val[i].type = ChunkType[prog.chunks[i]]

\* Parser::parse has returned the failure signal although it had recovered
\* a statement
C8_RecoveredNotReturned ==
  /\ stmts # None
  /\ ~stmts.ok
  /\ statements # <<>>
  /\ prog.family = "decls"

\* what the return programs print: the results of their calls; the programs
\* of ReturnOutsideFunction fail resolution instead
ReturnExpected ==
  [in_block |-> Numbers(<<1>>),
   in_if |-> Numbers(<<1, 2>>),
   in_while |-> Numbers(<<1>>),
   nested_fun |-> Numbers(<<1, 2>>),
   bare |-> <<Nil>>,
   no_return |-> <<Nil>>]

ReturnOutsideFunction ==
  {"top_level", "top_level_block", "top_level_else", "top_level_while", "after_fun"}

\* C9: in a program that passes resolution every Exit::Return becomes the
\* result of the nearest enclosing function call, and Interpreter::interpret
\* never returns Exit::Return.
C9_ReturnCaught ==
  /\ result # "Return"
  /\ (pc = "done" /\ prog.family = "return") =>
       IF prog.name \in ReturnOutsideFunction THEN result = "ResolveError"
       ELSE result = "Ok" /\ interpreter.stdout = ReturnExpected[prog.name]

\* a return inside a function declared in a function has been caught by the
\* inner call, and the outer call has returned its own value
C9_NestedReturnReached ==
  /\ pc = "done"
  /\ prog.family = "return"
  /\ prog.name = "nested_fun"
  /\ \E i \in DOMAIN interpreter.blocks : interpreter.blocks[i].result = "Return"

\* C10: execute_block installs one new frame as the current environment
\* and, when it returns with Ok, a return signal or a runtime error, the
\* current environment is again the one from before the call; between the
\* statements of interpret and when interpret returns, the current
\* environment is the global environment.
C10_BlockRestoresEnvironment ==
  interpreter # None =>
    /\ \A i \in DOMAIN interpreter.blocks :
         /\ interpreter.blocks[i].after = interpreter.blocks[i].previous
         /\ interpreter.blocks[i].installed > interpreter.blocks[i].previous
         /\ interpreter.blocks[i].installed \in DOMAIN interpreter.envs
    /\ pc \in {"interpret", "done"} => interpreter.environment = interpreter.globals

\* interpret has returned a runtime error that left a block, and another
\* block was left by a return signal or normally
C10_BlockLeftByErrorReached ==
  /\ pc = "done"
  /\ result = "RuntimeError"
  /\ \E i \in DOMAIN interpreter.blocks : interpreter.blocks[i].result = "RuntimeError"
  /\ Len(interpreter.blocks) >= 2

(***************************************************************************)
(* Properties of the resolver's scope stack (SpecResolver).                *)
(***************************************************************************)
Maximum(S) == CHOOSE m \in S : \A n \in S : m >= n

ScopesContaining(scopes, lexeme) == {j \in DOMAIN scopes : contains_key(scopes[j], lexeme)}

\* the number of scopes between the innermost scope and the innermost scope
\* that contains the name
HopsToInnermost(scopes, lexeme) == Len(scopes) - Maximum(ScopesContaining(scopes, lexeme))

\* the side-table entry of the reference node, given the scope stack
\* resolve_local saw
SideTableEntry(expr, scopes, locals) ==
  IF ScopesContaining(scopes, expr.name.lexeme) = {}
  THEN ~contains_key(locals, expr.uuid)
  ELSE /\ contains_key(locals, expr.uuid)
       /\ locals[expr.uuid] = HopsToInnermost(scopes, expr.name.lexeme)

\* C2: after resolve_local on a reference node, the side-table has for the
\* node the distance from the innermost scope to the innermost scope that
\* contains the name (0 is the innermost scope), and no entry when no scope
\* contains the name.
C2_InnermostHop ==
  pc = "resolved" =>
    SideTableEntry(statements[Len(statements)].expr, resolver.scopes, interpreter.locals)

(***************************************************************************)
(* Properties of programs with classes (SpecAst).                          *)
(***************************************************************************)
\* C3: a method got from an instance is bound to that instance and not to
\* a copy: after the calls of the bound method set have written self.f, the
\* read a.f on the instance gives the value written last.
C3_BoundToInstance ==
  (pc = "done" /\ prog.family = "bound")
    => (result = "Ok" /\ interpreter.stdout = Numbers(<<prog.writes>>))

\* C4: the fields the constructor writes through self are on the instance
\* the class call returns, a method of that instance reads them through
\* self, and two calls of the method read the same value: p.x, p.get() and
\* p.get() all give the constructor's argument.
C4_ConstructorFields ==
  (pc = "done" /\ prog.family = "ctor")
    => (result = "Ok"
          /\ interpreter.stdout = Numbers(<<prog.value, prog.value, prog.value>>))

\* the value the global scope holds for a name
Global(it, lexeme) == it.envs[it.globals].values[lexeme]

\* C6: a method call on an instance of a subclass runs the subclass's own
\* method when it has one and otherwise the method of the nearest ancestor
\* that has one, and the class value made by the class declaration carries
\* the declared superclass.
C6_SuperclassLookup ==
  (pc = "done" /\ prog.family = "inherit")
    => /\ result = "Ok"
       /\ interpreter.stdout = Numbers(<<IF prog.override THEN 2 ELSE 1>>)
       /\ Global(interpreter, "B").superclass # <<>>

\* the number of parameters the callee of an arity program declares
DeclaredArity(callee) ==
  CASE callee \in {"function", "class_ctor"} -> 2
    [] callee = "print" -> 1
    [] callee \in {"clock", "class_plain"} -> 0

\* C11: the argument count is compared with the callee's arity (for a class
\* the arity of its constructor, 0 without one) before the callee is
\* invoked; on a mismatch the call is a runtime error that reports both
\* counts, no instance and no call frame is made and the body prints
\* nothing; on a match the body sees exactly the arguments.
C11_ArityChecked ==
  (pc = "done" /\ prog.family = "arity") =>
    IF prog.args = DeclaredArity(prog.callee)
    THEN /\ result = "Ok"
         /\ interpreter.stdout =
              Numbers([i \in 1..(IF prog.callee \in {"clock", "class_plain"} THEN 0
                                 ELSE prog.args) |-> i])
    ELSE /\ result = "RuntimeError"
         /\ interpreter.stdout = <<>>
         /\ interpreter.instances = <<>>
         /\ Len(interpreter.envs) = Len(Interpreter_new.envs)
         /\ interpreter.stderr = << <<"Expected arguments but got",
                                      DeclaredArity(prog.callee), prog.args>> >>

\* a class whose constructor takes two parameters was called with three
\* arguments
C11_ClassMismatchReached ==
  /\ pc = "done"
  /\ prog.family = "arity"
  /\ prog.callee = "class_ctor"
  /\ prog.args = 3
  /\ result = "RuntimeError"

\* the value of a literal left operand, and whether it is truthy: only nil
\* and false are not
LeftValue(name) ==
  CASE name = "true" -> Boolean(TRUE)
    [] name = "false" -> Boolean(FALSE)
    [] name = "nil" -> Nil
    [] name = "zero" -> Number(0)
    [] name = "string" -> String(<<"s">>)

ShortCircuits(program) ==
  IF program.op \in {"or", "||"} THEN program.left \notin {"false", "nil"}
  ELSE program.left \in {"false", "nil"}

\* C12: a logical expression evaluates its left operand first; `or` with a
\* truthy left value and `and` with a falsy one give the left value and do
\* not evaluate the right operand (g keeps 0, no runtime error); otherwise
\* the result is the value of the right operand.
C12_ShortCircuit ==
  (pc = "done" /\ prog.family = "logical") =>
    CASE prog.left = "error" ->
           /\ result = "RuntimeError"
           /\ interpreter.stdout = <<>>
           /\ Global(interpreter, "g") = Number(0)
      [] prog.left # "error" /\ ShortCircuits(prog) ->
           /\ result = "Ok"
           /\ interpreter.stdout = <<LeftValue(prog.left), Number(0)>>
      [] OTHER ->
           CASE prog.right = "value" ->
                  result = "Ok" /\ interpreter.stdout = Numbers(<<7, 0>>)
             [] prog.right = "effect" ->
                  result = "Ok" /\ interpreter.stdout = Numbers(<<7, 7>>)
             [] prog.right = "error" ->
                  result = "RuntimeError" /\ interpreter.stdout = <<>>

\* `false and nil * 1` has run to the end without a runtime error
C12_ErrorSkippedReached ==
  /\ pc = "done"
  /\ prog.family = "logical"
  /\ prog.op = "and"
  /\ prog.left = "false"
  /\ prog.right = "error"
  /\ result = "Ok"

\* the statement a `for` with all three clauses is parsed into:
\* { initializer; while (condition) { body; increment; } }
IsDesugaredFor(stmt) ==
  /\ stmt.type = "Block"
  /\ Len(stmt.statements) = 2
  /\ stmt.statements[1].type = "Var"
  /\ stmt.statements[1].name.lexeme = "i"
  /\ stmt.statements[2].type = "While"
  /\ stmt.statements[2].condition.type = "Binary"
  /\ stmt.statements[2].body.type = "Block"
  /\ Len(stmt.statements[2].body.statements) = 2
  /\ stmt.statements[2].body.statements[1].type = "Expression"
  /\ stmt.statements[2].body.statements[1].expr.type = "Call"
  /\ stmt.statements[2].body.statements[2].type = "Expression"
  /\ stmt.statements[2].body.statements[2].expr.type = "Assignment"

\* the statement a `for (;;) body` is parsed into: while (true) body
IsDesugaredForever(stmt) ==
  /\ stmt.type = "While"
  /\ stmt.condition.type = "Literal"
  /\ stmt.condition.value = Boolean(TRUE)
  /\ stmt.body.type = "Block"
  /\ Len(stmt.body.statements) = 3

\* the for statement of a parsed for program
ForStatement(program, stmt_vec) ==
  CASE program.where = "top" -> stmt_vec[1]
    [] program.where = "block" -> stmt_vec[1].statements[1]
    [] program.where = "shadowed" -> stmt_vec[1].statements[2]
    [] program.where = "function" -> stmt_vec[1].body[1]
    [] program.where = "no_clauses" -> stmt_vec[1].body[2]

\* C13: a for statement is parsed into { initializer; while (condition)
\* { body; increment; } }, with a literal true condition when the condition
\* is omitted; the loop `for (var i = 0; i < n; i = i + 1) print(i);` prints
\* 0 .. n-1 in order, and after it the name i is not defined: a later
\* print(i) is a runtime error and the globals hold no i.
C13_ForLoop ==
  (pc = "done" /\ prog.family = "for") =>
    /\ IF prog.where = "no_clauses"
       THEN IsDesugaredForever(ForStatement(prog, statements))
       ELSE IsDesugaredFor(ForStatement(prog, statements))
    /\ result = (IF prog.after THEN "RuntimeError" ELSE "Ok")
    /\ interpreter.stdout = Numbers([i \in 1..prog.n |-> i - 1])
    /\ ~contains_key(interpreter.envs[interpreter.globals].values, "i")

\* C14: declaring x by var, fun, class or parameter in a local scope that
\* already holds x makes the resolver fail with "Already a variable with this
\* name in this scope." and nothing is run; when only an outer scope (or no
\* local scope) holds x the declaration succeeds, and it has put x in the
\* innermost scope: a further `var x` in that scope fails.
C14_Redeclaration ==
  (pc = "done" /\ prog.family = "redeclare") =>
    IF prog.where \in {"same", "outer_twice"}
    THEN /\ result = "ResolveError"
         /\ interpreter.stderr =
              << <<"Already a variable with this name in this scope.", "x">> >>
         /\ interpreter.stdout = <<>>
         /\ contains_key(resolver.scopes[Len(resolver.scopes)], "x")
    ELSE /\ result = "Ok"
         /\ interpreter.stdout = Numbers(<<1>>)
         /\ interpreter.stderr = <<>>

\* a parameter x of a function in a block that has a class x was accepted,
\* and the `var x` in the function's body was refused
C14_InnerRedeclarationReached ==
  /\ pc = "done"
  /\ prog.family = "redeclare"
  /\ prog.first = "class"
  /\ prog.kind = "param"
  /\ prog.where = "outer_twice"
  /\ result = "ResolveError"
  /\ Len(resolver.scopes) = 2

\* what the resolver makes of each returns program: the diagnostic it stops
\* with, or <<>> when it accepts the program, and then what the run prints
ReturnsDiagnostic ==
  [top_after_fun |-> <<"Can't return without enclosing function!">>,
   top_after_class |-> <<"Can't return without enclosing function!">>,
   top_after_nested |-> <<"Can't return without enclosing function!">>,
   init_value |-> <<"Can't return from an initializer!">>,
   init_after_nested |-> <<"Can't return from an initializer!">>,
   init_after_method |-> <<"Can't return from an initializer!">>,
   init_nested_only |-> <<>>,
   method_after_nested |-> <<>>,
   method_after_init |-> <<>>,
   fun_after_nested |-> <<>>,
   fun_after_class |-> <<>>]

ReturnsPrinted ==
  [init_nested_only |-> 1, method_after_nested |-> 2, method_after_init |-> 1,
   fun_after_nested |-> 2, fun_after_class |-> 2]

\* C15: the resolver rejects a return outside of every function and a
\* return with a value in an initializer; a return that follows a nested
\* function, method or initializer declaration is judged by the function
\* that encloses it, since current_function is restored on leaving the
\* nested declaration; an accepted program runs and the resolver ends with
\* current_function None.
C15_ReturnJudged ==
  (pc = "done" /\ prog.family = "returns") =>
    IF ReturnsDiagnostic[prog.name] # <<>>
    THEN /\ result = "ResolveError"
         /\ interpreter.stderr = <<ReturnsDiagnostic[prog.name]>>
         /\ interpreter.stdout = <<>>
    ELSE /\ result = "Ok"
         /\ interpreter.stdout = Numbers(<<ReturnsPrinted[prog.name]>>)
         /\ resolver.current_function = "None"

\* the return after the nested function g of an initializer was refused as
\* a return from an initializer
C15_InitializerAfterNestedReached ==
  /\ pc = "done"
  /\ prog.family = "returns"
  /\ prog.name = "init_after_nested"
  /\ result = "ResolveError"
  /\ resolver.current_function = "Initializer"

\* the value of an operand of a binary or equality program
OperandValue(it, name) ==
  CASE name = "six" -> Number(6)
    [] name = "two" -> Number(2)
    [] name = "a" -> String(<<"a">>)
    [] name = "b" -> String(<<"b">>)
    [] name = "nil" -> Nil
    [] name = "true" -> Boolean(TRUE)
    [] name = "f" -> Global(it, "f")
    [] name = "k" -> Global(it, "k")

IsNumberName(name) == name \in {"six", "two"}
IsStringName(name) == name \in {"a", "b"}
NumberOf(name) == IF name = "six" THEN 6 ELSE 2

\* the number an arithmetic operator gives for the operands 6 and 2 (every
\* quotient of the two that is printed is checked only when it is whole)
BinaryNumber(op, l, r) ==
  CASE op = "-" -> l - r
    [] op = "*" -> l * r
    [] op = "+" -> l + r
    [] op = "%" -> l % r
    [] op = "/" -> l \div r

\* C16: -, *, / and % succeed only with two numbers, + also with two
\* strings, which it concatenates; every other pair of operands is a runtime
\* error with one diagnostic that names the operator and both operand
\* values.
C16_BinaryOperands ==
  (pc = "done" /\ prog.family = "binary") =>
    CASE IsNumberName(prog.left) /\ IsNumberName(prog.right) ->
           /\ result = "Ok"
           /\ interpreter.stderr = <<>>
           /\ Len(interpreter.stdout) = 1
           /\ (prog.op = "/" /\ prog.left = "two" /\ prog.right = "six")
                \/ interpreter.stdout =
                     Numbers(<<BinaryNumber(prog.op, NumberOf(prog.left), NumberOf(prog.right))>>)
      [] prog.op = "+" /\ IsStringName(prog.left) /\ IsStringName(prog.right) ->
           /\ result = "Ok"
           /\ interpreter.stderr = <<>>
           /\ interpreter.stdout = <<String(<<prog.left, prog.right>>)>>
      [] OTHER ->
           /\ result = "RuntimeError"
           /\ interpreter.stdout = <<>>
           /\ Len(interpreter.stderr) = 1
           /\ Len(interpreter.stderr[1]) = 4
           /\ interpreter.stderr[1][2] = prog.op
           /\ interpreter.stderr[1][3] = OperandValue(interpreter, prog.left)
           /\ interpreter.stderr[1][4] = OperandValue(interpreter, prog.right)

\* the operands that are equal to themselves: numbers, strings, booleans
\* and nil
ComparedByValue == {"six", "two", "a", "b", "nil", "true", "false"}

\* C17: == and != never fail; two operands are equal exactly when they are
\* the same number, string or boolean, or both nil; a function, class,
\* instance or native function is unequal to everything, itself included;
\* != prints the negation of what == prints.
C17_Equality ==
  (pc = "done" /\ prog.family = "equality") =>
    /\ result = "Ok"
    /\ interpreter.stderr = <<>>
    /\ interpreter.stdout =
         <<Boolean((prog.op = "==")
                     = (prog.left = prog.right /\ prog.left \in ComparedByValue))>>

\* f == f has printed false
C17_SameFunctionReached ==
  /\ pc = "done"
  /\ prog.family = "equality"
  /\ prog.op = "=="
  /\ prog.left = "f"
  /\ prog.right = "f"
  /\ interpreter.stdout = <<Boolean(FALSE)>>

\* the value bound to "self" in the frame that the latest bind() made: the
\* closure frame of the initializer called last
LastSelf(it) ==
  it.envs[Maximum({e \in 1..Len(it.envs) : contains_key(it.envs[e].values, "self")})]
    .values["self"]

DistinctInstances(it) ==
  /\ contains_key(it.envs[it.globals].values, "p")
  /\ contains_key(it.envs[it.globals].values, "q")
  /\ Global(it, "p").tag = "Instance"
  /\ Global(it, "q").tag = "Instance"
  /\ Global(it, "p").ref # Global(it, "q").ref

\* C19: calling a class gives a new instance, distinct from the earlier ones
\* and without fields; a constructor `new` of the class or of an ancestor
\* is bound to the new instance and called with the arguments; the call
\* gives the instance with or without a constructor, and a runtime error
\* of the constructor ends the call.
C19_Instantiation ==
  (pc = "done" /\ prog.family = "instantiate") =>
    CASE prog.ctor = "none" ->
           /\ result = "Ok"
           /\ DistinctInstances(interpreter)
           /\ interpreter.instances[Global(interpreter, "p").ref].fields
                = insert(EmptyMap, "x", Number(9))
           /\ interpreter.instances[Global(interpreter, "q").ref].fields = EmptyMap
      [] prog.ctor \in {"own", "inherited"} ->
           /\ result = "Ok"
           /\ DistinctInstances(interpreter)
           /\ interpreter.stdout = Numbers(<<prog.value, prog.value + 1>>)
      [] prog.ctor = "failing" ->
           /\ result = "RuntimeError"
           /\ interpreter.stdout = <<>>
           /\ ~contains_key(interpreter.envs[interpreter.globals].values, "p")

\* every frame but the global one that holds a g holds the 7 it was
\* declared with
LocalFramesUnchanged(it) ==
  \A e \in 1..Len(it.envs) :
    (e # it.globals /\ contains_key(it.envs[e].values, "g"))
      => it.envs[e].values["g"] = Number(7)

\* C20: an assignment without a hop writes to the global frame only: a
\* global g gets the value and the g of the frame the function closes over
\* keeps its 7; without a global g the assignment is a runtime error and no
\* frame changes; the assignment expression has the assigned value.
C20_GlobalAssignment ==
  (pc = "done" /\ prog.family = "assign") =>
    /\ LocalFramesUnchanged(interpreter)
    /\ IF prog.defined
       THEN /\ result = "Ok"
            /\ Global(interpreter, "g") = Number(10 + prog.value)
            /\ interpreter.stdout =
                 Numbers(IF prog.local
                         THEN <<10 + prog.value, 7, 10 + prog.value>>
                         ELSE <<10 + prog.value, 10 + prog.value>>)
       ELSE /\ result = "RuntimeError"
            /\ interpreter.stdout = <<>>
            /\ interpreter.stderr = << <<"Assigning to undefinied variable", "g">> >>
            /\ ~contains_key(interpreter.envs[interpreter.globals].values, "g")

\* the assignment in f has run while the frame f closes over held g = 7
C20_LocalBypassedReached ==
  /\ pc = "done"
  /\ prog.family = "assign"
  /\ prog.defined
  /\ prog.local
  /\ result = "Ok"
  /\ \E e \in 1..Len(interpreter.envs) :
       /\ e # interpreter.globals
       /\ contains_key(interpreter.envs[e].values, "g")

\* the chunks of a decls program that hold a static error: the top-level
\* return (chunk 5) and the block that declares b twice (chunk 8)
StaticErrorChunks(program) == {i \in DOMAIN program.chunks : program.chunks[i] \in {5, 8}}

\* C21: after a static error in one statement the resolver goes on with the
\* statements that follow: a program whose top-level statements hold k
\* static errors has k diagnostics when the pass is over, and the pass ends
\* with the failure signal.
C21_ResolverGoesOn ==
  (/\ pc = "done"
   /\ prog.family = "decls"
   /\ \A i \in DOMAIN prog.chunks : ChunkParses[prog.chunks[i]]
   /\ StaticErrorChunks(prog) # {}) =>
    /\ result = "ResolveError"
    /\ Len(interpreter.stderr) = Cardinality(StaticErrorChunks(prog))

\* the ownread programs the resolver must refuse, with the name that is
\* read while it is not ready and the names that are ready at that point
OwnReadRefused ==
  [self_read |-> [unready |-> "a", ready |-> {}],
   self_read_in_sum |-> [unready |-> "a", ready |-> {}],
   self_read_in_call |-> [unready |-> "a", ready |-> {}],
   shadowing_read |-> [unready |-> "a", ready |-> {}],
   second_self_read |-> [unready |-> "b", ready |-> {"a"}]]

\* C22: in a local scope a var declaration marks its name not ready (false)
\* before its initializer is resolved and ready (true) after it; a read of
\* the name while the innermost scope marks it not ready makes resolution
\* fail; a read after the declaration is accepted and the program runs.
C22_ReadInOwnInitializer ==
  (pc = "done" /\ prog.family = "ownread") =>
    IF prog.name \in DOMAIN OwnReadRefused
    THEN /\ result = "ResolveError"
         /\ interpreter.stderr =
              << <<"Can't read local variable in its own initializer.",
                   OwnReadRefused[prog.name].unready>> >>
         /\ interpreter.stdout = <<>>
         /\ resolver.scopes # <<>>
         /\ LET scope == resolver.scopes[Len(resolver.scopes)] IN
              /\ DOMAIN scope = {OwnReadRefused[prog.name].unready}
                                  \cup OwnReadRefused[prog.name].ready
              /\ \A n \in DOMAIN scope :
                   scope[n] = (n \in OwnReadRefused[prog.name].ready)
    ELSE /\ result = "Ok"
         /\ interpreter.stdout = Numbers(<<1>>)
         /\ interpreter.stderr = <<>>

\* the read of b in `var b = b;` was refused after `var a = 1;` had been
\* completed in the same scope
C22_SecondDeclarationReached ==
  /\ pc = "done"
  /\ prog.family = "ownread"
  /\ prog.name = "second_self_read"
  /\ result = "ResolveError"
  /\ resolver.scopes[Len(resolver.scopes)]["a"] = TRUE

(***************************************************************************)
(* Properties of the Environment calls (SpecEnvironment).                  *)
(***************************************************************************)
\* the frames other than frame t are as they were before the call
OtherFramesUnchanged(t) ==
  /\ Len(interpreter.envs) = Len(stmts.envs)
  /\ \A f \in 1..Len(stmts.envs) : f # t => interpreter.envs[f] = stmts.envs[f]

\* C23: get_at(distance, name) and assign_at(distance, name, value) work on
\* the one frame that lies exactly `distance` links outward: get_at gives the
\* value that frame holds for the name and fails when that frame does not
\* hold it, also when a frame further out does; assign_at changes that frame
\* only.
C23_ExactFrame ==
  (pc \in {"called", "done"} /\ stmts.call.op \in {"get_at", "assign_at"}) =>
    LET t == FrameAt(stmts.envs, stmts.environment, stmts.call.distance) IN
    t # 0 =>
      IF stmts.call.op = "get_at"
      THEN /\ interpreter.envs = stmts.envs
           /\ IF contains_key(stmts.envs[t].values, stmts.call.name)
              THEN result = "Ok" /\ stmts.val = stmts.envs[t].values[stmts.call.name]
              ELSE result = "RuntimeError"
      ELSE /\ result = "Ok"
           /\ OtherFramesUnchanged(t)
           /\ interpreter.envs[t] =
                [values |-> insert(stmts.envs[t].values, stmts.call.name, stmts.call.value),
                 enclosing |-> stmts.envs[t].enclosing]

\* the nearest frame, from frame e outward, that holds the name; 0 when no
\* frame up to the root holds it
RECURSIVE NearestFrame(_, _, _)
NearestFrame(envs, e, name) ==
  IF contains_key(envs[e].values, name) THEN e
  ELSE IF envs[e].enclosing = 0 THEN 0
  ELSE NearestFrame(envs, envs[e].enclosing, name)

\* C26: get and assign look for the name in the frame they are called on
\* and then in each enclosing frame, and act on the nearest frame that holds
\* it: get gives its value, assign replaces the value in that frame only and
\* adds no binding anywhere.  When no frame holds the name both are the
\* undefined-variable runtime error and every frame is unchanged.
C26_NearestFrame ==
  (pc \in {"called", "done"} /\ stmts.call.op \in {"get", "assign"}) =>
    LET t == NearestFrame(stmts.envs, stmts.environment, stmts.call.name) IN
    IF t = 0
    THEN /\ result = "RuntimeError"
         /\ interpreter.envs = stmts.envs
         /\ interpreter.stderr =
              << <<IF stmts.call.op = "get" THEN "Undefinied variable"
                   ELSE "Assigning to undefinied variable",
                   stmts.call.name>> >>
    ELSE /\ result = "Ok"
         /\ interpreter.stderr = <<>>
         /\ OtherFramesUnchanged(t)
         /\ IF stmts.call.op = "get"
            THEN /\ stmts.val = stmts.envs[t].values[stmts.call.name]
                 /\ interpreter.envs[t] = stmts.envs[t]
            ELSE /\ interpreter.envs[t].enclosing = stmts.envs[t].enclosing
                 /\ DOMAIN interpreter.envs[t].values = DOMAIN stmts.envs[t].values
                 /\ \A n \in DOMAIN stmts.envs[t].values :
                      interpreter.envs[t].values[n] =
                        IF n = stmts.call.name THEN stmts.call.value
                        ELSE stmts.envs[t].values[n]

\* an assign has replaced the value of a name that the frame called on does
\* not hold, in the nearer of two enclosing frames that both hold it
C26_NearerOfTwoReached ==
  /\ pc = "called"
  /\ stmts.call.op = "assign"
  /\ stmts.environment = 3
  /\ NearestFrame(stmts.envs, stmts.environment, stmts.call.name) = 2
  /\ contains_key(stmts.envs[1].values, stmts.call.name)
  /\ stmts.envs[2].values[stmts.call.name] # stmts.call.value


\* ---------------------------------------------------------------------
\* Hops recorded by the resolver against the run-time chain (SpecAst)
\* ---------------------------------------------------------------------

C25_WrittenOncePerNode ==
  \A i, j \in DOMAIN interpreter.writes :
    interpreter.writes[i] = interpreter.writes[j] => i = j

\* ---------------------------------------------------------------------
\* Termination of Parser::parse (SpecParse)
\* ---------------------------------------------------------------------

\* the index of the Eof sentinel, 0-based as `current`
Sentinel == Len(parser.tokens) - 1

InitializerReturns ==
  /\ prog.family = "initreturn"
  /\ prog.method = "new"
  /\ prog.body \notin {"nested_function", "none"}

\* what Parser::statement makes of `return;`
ParsedBareReturn == statement(Parser_new(scan_tokens(<<"return", ";">>), 0)).val

\* C28: the statement the parser makes of `return;` has a nil literal as its
\* value; in an initializer every return, that one included, ends the
\* resolution with "Can't return from an initializer!", and the value of the
\* return is not resolved (no hop is recorded for it); the same bodies are
\* accepted in a method that is not an initializer, and so is a return in a
\* function nested in the initializer.
C28_InitializerReturnRefused ==
  /\ ParsedBareReturn = StmtReturn(scan_token("return"), ExprLiteral(Nil, 1))
  /\ Numbered(<<ParsedBareReturn>>) = Numbered(<<BareReturn>>)
  /\ (pc = "done" /\ prog.family = "initreturn") =>
       IF InitializerReturns
       THEN /\ result = "ResolveError"
            /\ interpreter.stderr = <<<<"Can't return from an initializer!">>>>
            /\ interpreter.stdout = <<>>
            /\ prog.body \in {"bare", "number", "param", "self", "in_block"}
                 => interpreter.locals = EmptyMap
       ELSE result # "ResolveError"

C28_BareReturnRefusedReached ==
  /\ pc = "done"
  /\ InitializerReturns /\ prog.body = "bare"
  /\ result = "ResolveError"
  /\ resolver.current_function = "Initializer"

\* ---------------------------------------------------------------------
\* Declarations at the top level (SpecAst)
\* ---------------------------------------------------------------------

\* what each toplevel program prints
TopLevelPrinted ==
  [twice |-> <<2>>, twice_function |-> <<2>>, own_initializer |-> <<2>>,
   own_undefined |-> <<>>, reference |-> <<1, 2>>, function_reads |-> <<1>>]

\* C29: at the top level the scope stack stays empty through declare and
\* define, so a second declaration of a name and a read of a variable in
\* its own initializer are no resolution failures and no reference gets a
\* hop; when the program runs, the second declaration overwrites the global
\* binding, and the read in the initializer is an ordinary global lookup.
C29_TopLevelUnchecked ==
  (prog.family = "toplevel") =>
    /\ resolver.scopes = <<>>
    /\ interpreter.locals = EmptyMap
    /\ result # "ResolveError"
    /\ (pc = "done") =>
         /\ interpreter.stdout = Numbers(TopLevelPrinted[prog.name])
         /\ IF prog.name = "own_undefined"
            THEN /\ result = "RuntimeError"
                 /\ interpreter.stderr = <<<<"Undefinied variable", "a">>>>
            ELSE /\ result = "Ok"
                 /\ interpreter.stderr = <<>>
         /\ (prog.name \in {"twice", "twice_function", "own_initializer"}) =>
              interpreter.envs[interpreter.globals].values["a"] = Number(2)

C29_SecondDeclarationOverwritesReached ==
  /\ pc = "done" /\ result = "Ok"
  /\ prog.family = "toplevel" /\ prog.name = "twice"
  /\ interpreter.envs[interpreter.globals].values["a"] = Number(2)
  /\ interpreter.stdout = Numbers(<<2>>)

\* ---------------------------------------------------------------------
\* Order of evaluation in a call (SpecAst)
\* ---------------------------------------------------------------------

\* the trace of a callorder program: 0 for the callee, i for argument i up
\* to the last one evaluated, 9 for the body of f
CallOrderPrinted(program) ==
  IF program.callee = "failing" THEN <<>>
  ELSE <<0>>
         \o [i \in 1..(IF program.fails = 0 THEN program.args ELSE program.fails) |-> i]
         \o (IF program.callee = "function" /\ program.fails = 0 /\ program.args = 2
             THEN <<9>> ELSE <<>>)

CallOrderChecks ==
  {<<"Can only call functions/methods">>} \cup
  {<<"Expected arguments but got", 2, n>> : n \in 0..(MaxArgs + 1)}

\* C30: the callee is evaluated first, then the arguments from left to
\* right, and the callee and the argument count are looked at after all of
\* them: an error in the callee or in an argument ends the call with no
\* later argument evaluated and no check reported, and a not-callable or
\* arity error comes after the effects of all the arguments.
C30_CallOrder ==
  (pc = "done" /\ prog.family = "callorder") =>
    /\ interpreter.stdout = Numbers(CallOrderPrinted(prog))
    /\ IF prog.callee = "failing" \/ prog.fails # 0
       THEN /\ result = "RuntimeError"
            /\ Len(interpreter.stderr) = 1
            /\ interpreter.stderr[1] \notin CallOrderChecks
       ELSE IF prog.callee = "not_callable"
       THEN /\ result = "RuntimeError"
            /\ interpreter.stderr = <<<<"Can only call functions/methods">>>>
       ELSE IF prog.args # 2
       THEN /\ result = "RuntimeError"
            /\ interpreter.stderr = <<<<"Expected arguments but got", 2, prog.args>>>>
       ELSE /\ result = "Ok"
            /\ interpreter.stderr = <<>>

C30_ArityErrorAfterArgumentsReached ==
  /\ pc = "done" /\ result = "RuntimeError"
  /\ prog.family = "callorder" /\ prog.callee = "function"
  /\ prog.args = 3 /\ prog.fails = 0
  /\ interpreter.stdout = Numbers(<<0, 1, 2, 3>>)
  /\ interpreter.stderr = <<<<"Expected arguments but got", 2, 3>>>>
====
